---- MODULE Spec2Model ----
(***************************************************************************)
(* State-machine model of the note-taking client (frontend/src/App.tsx):   *)
(* the notes and folders collections, the requests in flight, the folder   *)
(* tree builder, the recursive tree renderer and the drag-and-drop move.   *)
(*                                                                         *)
(* Conventions                                                             *)
(*   - JavaScript null and undefined are the integers Null and Undefined;  *)
(*     entity ids are the positive integers the database assigns (SERIAL). *)
(*   - A string that the code inspects (title, content, search text) is a  *)
(*     tuple of one-character strings; other strings are TLA+ strings.     *)
(*   - net is the list of the requests in flight, in issue order; a        *)
(*     request is pending or answered (ok / non2xx / neterr), and leaves   *)
(*     the list when its continuation in the client runs.                  *)
(***************************************************************************)
EXTENDS Integers, Sequences, FiniteSets, TLC

\* ------------------------------------------------------------------ bounds
MaxOps == 2          \* mutation requests the user starts in one behaviour
MaxNotes == 2        \* rows of the notes table
MaxFolders == 1      \* rows of the folders table
MaxTreeLen == 3      \* length of the flat folder list given to the tree builder
MaxViewNotes == 3    \* notes in the sidebar when only the filters change
MaxAppOps == 1       \* mutation requests when every operation of the page is at hand
MaxPinFolders == 2   \* rows of the folders table when pins and expansion are studied
MaxMoveFolders == 2  \* rows of the folders table when racing moves are studied

\* --------------------------------------------------------------- JS values
Null == 0 - 1
Undefined == 0 - 2
Truthy(v) == v # Null /\ v # Undefined /\ v # 0

\* value || undefined
OrUndefined(v) == IF Truthy(v) THEN v ELSE Undefined

\* --------------------------------------------------------------- sequences
SeqToSet(s) == {s[i] : i \in 1..Len(s)}

\* the ids of a list of notes or folders
IdsOf(flat) == {flat[i].id : i \in 1..Len(flat)}

MapSeq(s, F(_)) == [i \in 1..Len(s) |-> F(s[i])]

\* Array.prototype.find: the first element satisfying P, or Undefined
Find(s, P(_)) ==
  IF \E i \in 1..Len(s) : P(s[i])
  THEN s[CHOOSE i \in 1..Len(s) : P(s[i]) /\ \A j \in 1..(i-1) : ~P(s[j])]
  ELSE Undefined

Includes(s, x) == \E i \in 1..Len(s) : s[i] = x

\* ------------------------------------------------------------------ strings
ToLowerChar(c) == CASE c = "A" -> "a" [] c = "B" -> "b" [] OTHER -> c
ToLowerCase(str) == [i \in 1..Len(str) |-> ToLowerChar(str[i])]

\* String.prototype.includes
StrIncludes(hay, needle) ==
  \E i \in 0..(Len(hay) - Len(needle)) : SubSeq(hay, i + 1, i + Len(needle)) = needle

\* Number.prototype.toString and parseInt, on decimal digit characters
DigitChars == <<"0", "1", "2", "3", "4", "5", "6", "7", "8", "9">>
IsDigit(c) == \E d \in 1..10 : DigitChars[d] = c
DigitValue(c) == (CHOOSE d \in 1..10 : DigitChars[d] = c) - 1
NaN == 0 - 3

RECURSIVE NumToString(_)
NumToString(n) ==
  IF n < 10 THEN <<DigitChars[n + 1]>>
  ELSE NumToString(n \div 10) \o <<DigitChars[(n % 10) + 1]>>

RECURSIVE ParseDigits(_, _)
ParseDigits(str, acc) ==
  IF str = <<>> \/ ~IsDigit(Head(str)) THEN acc
  ELSE ParseDigits(Tail(str), 10 * acc + DigitValue(Head(str)))

ParseInt(str) ==
  IF str = <<>> \/ ~IsDigit(Head(str)) THEN NaN ELSE ParseDigits(str, 0)

StartsWith(str, prefix) ==
  Len(str) >= Len(prefix) /\ SubSeq(str, 1, Len(prefix)) = prefix

\* str.replace(prefix, '') for a str that starts with prefix
RemovePrefix(str, prefix) == SubSeq(str, Len(prefix) + 1, Len(str))

\* String.prototype.trim, for the blank character " "
RECURSIVE TrimStart(_)
TrimStart(str) ==
  IF str # <<>> /\ Head(str) = " " THEN TrimStart(Tail(str)) ELSE str

RECURSIVE TrimEnd(_)
TrimEnd(str) ==
  IF str # <<>> /\ str[Len(str)] = " " THEN TrimEnd(SubSeq(str, 1, Len(str) - 1)) ELSE str

Trim(str) == TrimEnd(TrimStart(str))

\* writes the numbers one after the other, without a separator
RECURSIVE JoinNumbersNoComma(_)
JoinNumbersNoComma(arr) ==
  IF arr = <<>> THEN <<>>
  ELSE NumToString(arr[1]) \o JoinNumbersNoComma(Tail(arr))

\* JSON.stringify of an array of numbers: "[1,2]"
RECURSIVE JoinNumbers(_)
JoinNumbers(arr) ==
  IF arr = <<>> THEN <<>>
  ELSE IF Len(arr) = 1 THEN NumToString(arr[1])
  ELSE NumToString(arr[1]) \o <<",">> \o JoinNumbers(Tail(arr))

JSONStringify(arr) == <<"[">> \o JoinNumbers(arr) \o <<"]">>

\* JSON.parse of such a text: the numbers between the brackets, split at commas
RECURSIVE ParseNumbers(_, _, _)
ParseNumbers(str, digits, acc) ==
  IF str = <<>> \/ Head(str) = "]"
  THEN IF digits = <<>> THEN acc ELSE Append(acc, ParseInt(digits))
  ELSE IF Head(str) = ","
       THEN ParseNumbers(Tail(str), <<>>, Append(acc, ParseInt(digits)))
       ELSE ParseNumbers(Tail(str), Append(digits, Head(str)), acc)

JSONParse(text) == ParseNumbers(Tail(text), <<>>, <<>>)

\* a nullable object (Note | null, Folder | null) is <<>> or <<object>>
None == <<>>
Some(x) == <<x>>
IsSome(o) == o # <<>>
TheObj(o) == o[1]

\* ------------------------------------------------------------- data domains
\* what the user can type into the note form (title, content, tags, colour)
NoteData ==
  { [title |-> <<"a">>, content |-> <<"b">>, tags |-> <<"x">>, color |-> "#6366f1"],
    [title |-> <<"B">>, content |-> <<>>, tags |-> <<>>, color |-> "#ec4899"] }

\* what the user can type into the search bar
SearchTexts == { <<>>, <<"a">>, <<"b">>, <<"c">> }

Tags == {"x", "y"}

NoteIds == 1..MaxNotes
FolderIds == 1..MaxFolders

MkNote(id, d, fid) ==
  [id |-> id, title |-> d.title, content |-> d.content, tags |-> d.tags,
   color |-> d.color, folder_id |-> fid]

MkFolder(id, name, icon, pid) ==
  [id |-> id, name |-> name, color |-> "#6366f1", icon |-> icon, parent_id |-> pid]

\* a toast message is a tuple of string pieces (a template literal's parts)
NoToast == [message |-> <<>>, type |-> "none"]
Toast(m, t) == [message |-> m, type |-> t]

\* ------------------------------------------------------- folder tree builder
\* The forest is held as the code holds it: folderMap maps an id to its node,
\* a node's children list holds references to nodes of folderMap (here: their
\* ids), and rootFolders is the returned list.

\* folders.forEach(folder => folderMap.set(folder.id, {...folder, children: []}))
InitFolderMap(flat) ==
  [id \in {flat[i].id : i \in 1..Len(flat)} |->
     flat[CHOOSE i \in 1..Len(flat) :
            flat[i].id = id /\ \A j \in (i+1)..Len(flat) : flat[j].id # id]]

\* the second forEach, from index i on
RECURSIVE BuildHierarchy(_, _, _, _)
BuildHierarchy(flat, i, children, rootFolders) ==
  IF i > Len(flat) THEN [roots |-> rootFolders, children |-> children]
  ELSE LET folder == flat[i] IN
       IF Truthy(folder.parent_id) /\ folder.parent_id \in DOMAIN children
       THEN BuildHierarchy(flat, i + 1,
              [children EXCEPT ![folder.parent_id] = Append(@, folder.id)], rootFolders)
       ELSE BuildHierarchy(flat, i + 1, children, Append(rootFolders, folder.id))

\* a single pass that attaches a folder only to a parent met earlier in the list
RECURSIVE BuildSinglePass(_, _, _, _)
BuildSinglePass(flat, i, children, rootFolders) ==
  IF i > Len(flat) THEN [roots |-> rootFolders, children |-> children]
  ELSE LET folder == flat[i] IN
       IF Truthy(folder.parent_id)
          /\ \E j \in 1..(i-1) : flat[j].id = folder.parent_id
       THEN BuildSinglePass(flat, i + 1,
              [children EXCEPT ![folder.parent_id] = Append(@, folder.id)], rootFolders)
       ELSE BuildSinglePass(flat, i + 1, children, Append(rootFolders, folder.id))

organizeSinglePass(flat) ==
  LET folderMap == InitFolderMap(flat)
      built == BuildSinglePass(flat, 1, [id \in DOMAIN folderMap |-> <<>>], <<>>)
  IN [folderMap |-> folderMap, roots |-> built.roots, children |-> built.children]

\* pushes every folder to the root list, also one attached to a parent
RECURSIVE BuildAlsoRoots(_, _, _, _)
BuildAlsoRoots(flat, i, children, rootFolders) ==
  IF i > Len(flat) THEN [roots |-> rootFolders, children |-> children]
  ELSE LET folder == flat[i] IN
       IF Truthy(folder.parent_id) /\ folder.parent_id \in DOMAIN children
       THEN BuildAlsoRoots(flat, i + 1,
              [children EXCEPT ![folder.parent_id] = Append(@, folder.id)],
              Append(rootFolders, folder.id))
       ELSE BuildAlsoRoots(flat, i + 1, children, Append(rootFolders, folder.id))

organizeAlsoRoots(flat) ==
  LET folderMap == InitFolderMap(flat)
      built == BuildAlsoRoots(flat, 1, [id \in DOMAIN folderMap |-> <<>>], <<>>)
  IN [folderMap |-> folderMap, roots |-> built.roots, children |-> built.children]

\* drops a folder whose parent_id resolves to no folder instead of rooting it
organizeDropDangling(flat) ==
  LET folderMap == InitFolderMap(flat)
      built == BuildHierarchy(flat, 1, [id \in DOMAIN folderMap |-> <<>>], <<>>)
      keep(id) == ~Truthy(folderMap[id].parent_id)
  IN [folderMap |-> folderMap, roots |-> SelectSeq(built.roots, keep),
      children |-> built.children]

organizeHierarchically(flat) ==
  LET folderMap == InitFolderMap(flat)
      built == BuildHierarchy(flat, 1, [id \in DOMAIN folderMap |-> <<>>], <<>>)
  IN [folderMap |-> folderMap, roots |-> built.roots, children |-> built.children]

\* -------------------------------------------------------------------- state
VARIABLES
  notes,                \* useState<Note[]>
  folders,              \* useState<Folder[]>
  loading,              \* useState(false)
  toast,                \* useState<{message, type} | null>
  search,               \* useState('')
  activeTag,            \* useState<string | undefined>
  editingNote,          \* useState<Note | null>
  confirmDelete,        \* useState({open, noteId})
  showCreateFolder,     \* useState(false)
  creatingSubfolderFor, \* useState<number | null>
  expandedFolders,      \* useState<number[]>
  isUnfiledExpanded,    \* useState(false)
  draggedNote,          \* useState<Note | null>
  dragActive,           \* the id of the draggable the DndContext is dragging
  editingFolder,        \* useState<Folder | null>
  confirmDeleteFolder,  \* useState({open, folderId})
  net,                  \* the fetch() calls in flight, in issue order
  ops,                  \* number of mutation requests started by the user
  srvNotes,             \* the notes table
  srvFolders,           \* the folders table
  srvNextNoteId,        \* notes.id SERIAL
  srvNextFolderId,      \* folders.id SERIAL
  renderPc,             \* position of the render pass of the folder tree
  renderStack,          \* HierarchicalFolderSection elements still to render
  renderVisited,        \* folder ids rendered so far in this pass
  pinnedIds,            \* useState<number[]>
  pinnedStore           \* localStorage item 'pinned'

dataVars == <<notes, folders>>
viewVars == <<search, activeTag, expandedFolders, isUnfiledExpanded>>
dialogVars == <<editingNote, confirmDelete, showCreateFolder, creatingSubfolderFor,
                editingFolder, confirmDeleteFolder>>
dragVars == <<draggedNote, dragActive>>
srvVars == <<srvNotes, srvFolders, srvNextNoteId, srvNextFolderId>>
renderVars == <<renderPc, renderStack, renderVisited>>
pinVars == <<pinnedIds, pinnedStore>>
vars == <<dataVars, loading, toast, viewVars, dialogVars, dragVars, net, ops,
          srvVars, renderVars, pinVars>>

\* ------------------------------------------------------------- derived view
NoTag == ""

\* const searchAndTagFilteredNotes = notes.filter(...)
searchAndTagFilteredNotes ==
  SelectSeq(notes, LAMBDA n :
    /\ (IF activeTag # NoTag THEN Includes(n.tags, activeTag) ELSE TRUE)
    /\ \/ StrIncludes(ToLowerCase(n.title), ToLowerCase(search))
       \/ StrIncludes(ToLowerCase(n.content), ToLowerCase(search)))

\* counts only an explicit null as unfiled
notesWithoutFolderNullOnly ==
  SelectSeq(searchAndTagFilteredNotes, LAMBDA n : n.folder_id = Null)

\* const notesWithoutFolder = searchAndTagFilteredNotes.filter(...)
notesWithoutFolder ==
  SelectSeq(searchAndTagFilteredNotes,
            LAMBDA n : n.folder_id = Null \/ n.folder_id = Undefined)

\* the notes prop App hands to every HierarchicalFolderSection
sectionNotes == notes

\* const folderNotes = notes.filter(n => n.folder_id === folder.id)
folderNotes(folderId) == SelectSeq(sectionNotes, LAMBDA n : n.folder_id = folderId)

\* const allTags = Array.from(new Set(notes.flatMap(n => n.tags || [])))
allTags == UNION {SeqToSet(notes[i].tags) : i \in 1..Len(notes)}

hierarchicalFolders == organizeHierarchically(folders)

\* <span className="folder-name">{folder.name} ({folderNotes.length})</span>
FolderCount(folderId) == Len(folderNotes(folderId))

\* <span className="folder-name">Unfiled Notes ({notes.length})</span>
UnfiledCount == Len(notesWithoutFolder)

\* {hierarchicalFolders.map(folder => editingFolder && editingFolder.id === folder.id
\*    ? <FolderEditForm/> : <HierarchicalFolderSection/>)}
TopLevelSections ==
  SelectSeq(hierarchicalFolders.roots,
            LAMBDA id : ~(IsSome(editingFolder) /\ TheObj(editingFolder).id = id))

\* one HierarchicalFolderSection element: its header, and when it is expanded
\* its children, each rendered by a recursive HierarchicalFolderSection
SectionChildren(tree, expanded, id) ==
  IF Includes(expanded, id) THEN tree.children[id] ELSE <<>>

\* the ids of the sections a complete render pass mounts, in render order
RECURSIVE RenderOrder(_, _, _, _)
RenderOrder(tree, expanded, stack, fuel) ==
  IF stack = <<>> \/ fuel = 0 THEN <<>>
  ELSE <<Head(stack)>> \o
       RenderOrder(tree, expanded,
                   SectionChildren(tree, expanded, Head(stack)) \o Tail(stack), fuel - 1)

MountedSections ==
  SeqToSet(RenderOrder(hierarchicalFolders, expandedFolders, TopLevelSections,
                       Len(folders)))

\* ------------------------------------------------------------------ network
GetNotes == "GET /api/notes"
GetFolders == "GET /api/folders"
PostNote == "POST /api/notes"
PutNote == "PUT /api/notes/{id}"
DeleteNote == "DELETE /api/notes/{id}"
PostFolder == "POST /api/folders"
PutFolder == "PUT /api/folders/{id}"
DeleteFolder == "DELETE /api/folders/{id}"

NoBody == [none |-> TRUE]

\* a fetch() call: the request, the async function awaiting it (handler) and
\* what that function's closure holds for its continuation (ctx)
Req(kind, handler, id, body, ctx) ==
  [kind |-> kind, handler |-> handler, id |-> id, body |-> body, ctx |-> ctx,
   status |-> "pending", payload |-> <<>>]

Answered(i) == net[i].status \in {"ok", "non2xx", "neterr"}

\* the continuation of request i has run
Done(i) == SubSeq(net, 1, i - 1) \o SubSeq(net, i + 1, Len(net))

\* one message for every failure, whatever the operation
ErrMessageGeneric(i, thrown) == <<"Request failed">>

\* err.message in the catch block: the Error thrown on !res.ok, or the
\* TypeError fetch() rejects with on a transport error
ErrMessage(i, thrown) ==
  IF net[i].status = "non2xx" THEN <<thrown>> ELSE <<"NetworkError">>

\* ------------------------------------------------------------------- server
\* The HTTP surface of section 6 over the two tables of init.sql.
SrvNoteIds == {srvNotes[i].id : i \in 1..Len(srvNotes)}
SrvFolderIds == {srvFolders[i].id : i \in 1..Len(srvFolders)}

\* a JSON body field that is absent or null is stored as NULL
Stored(v) == IF v = Undefined THEN Null ELSE v

\* folder_id INTEGER REFERENCES folders(id)
FolderRefOk(fid) == Stored(fid) = Null \/ Stored(fid) \in SrvFolderIds

Answer(i, status, payload) ==
  net' = [net EXCEPT ![i].status = status, ![i].payload = payload]

ServeGetNotes(i) ==
  /\ net[i].kind = GetNotes
  /\ Answer(i, "ok", srvNotes)
  /\ UNCHANGED srvVars

ServeGetFolders(i) ==
  /\ net[i].kind = GetFolders
  /\ Answer(i, "ok", srvFolders)
  /\ UNCHANGED srvVars

ServePutNote(i) ==
  /\ net[i].kind = PutNote
  /\ IF net[i].id \in SrvNoteIds /\ FolderRefOk(net[i].body.folder_id)
     THEN /\ srvNotes' = MapSeq(srvNotes, LAMBDA n :
                 IF n.id = net[i].id
                 THEN MkNote(n.id, net[i].body, Stored(net[i].body.folder_id))
                 ELSE n)
          /\ Answer(i, "ok", <<>>)
     ELSE /\ srvNotes' = srvNotes
          /\ Answer(i, "non2xx", <<>>)
  /\ UNCHANGED <<srvFolders, srvNextNoteId, srvNextFolderId>>

ServeDeleteNote(i) ==
  /\ net[i].kind = DeleteNote
  /\ IF net[i].id \in SrvNoteIds
     THEN /\ srvNotes' = SelectSeq(srvNotes, LAMBDA n : n.id # net[i].id)
          /\ Answer(i, "ok", <<>>)
     ELSE /\ srvNotes' = srvNotes
          /\ Answer(i, "non2xx", <<>>)
  /\ UNCHANGED <<srvFolders, srvNextNoteId, srvNextFolderId>>

\* a 4xx/5xx answer that leaves the tables as they are
ServerReject(i) ==
  /\ Answer(i, "non2xx", <<>>)
  /\ UNCHANGED srvVars

\* the request never reaches the server: fetch() rejects
TransportError(i) ==
  /\ Answer(i, "neterr", <<>>)
  /\ UNCHANGED srvVars

clientVars == <<dataVars, loading, toast, viewVars, dialogVars, dragVars, ops, pinVars>>
uiVars == <<viewVars, dialogVars, dragVars>>

\* ------------------------------------------------------------- list fetches
FetchNotesReq == Req(GetNotes, "fetchNotes", 0, NoBody, <<>>)
FetchFoldersReq == Req(GetFolders, "fetchFolders", 0, NoBody, <<>>)

\* a response is dropped when a fetch issued later is still in flight
FetchNotesDoneLatestOnly(i) ==
  /\ net[i].handler = "fetchNotes" /\ Answered(i)
  /\ IF net[i].status = "ok"
     THEN /\ notes' = IF \E j \in (i + 1)..Len(net) : net[j].kind = GetNotes
                      THEN notes ELSE net[i].payload
          /\ toast' = toast
     ELSE notes' = notes
          /\ toast' = Toast(ErrMessage(i, "Failed to fetch notes"), "error")
  /\ loading' = FALSE
  /\ net' = Done(i)
  /\ UNCHANGED <<folders, uiVars, ops, srvVars, renderVars, pinVars>>

\* fetchNotes, after the await
FetchNotesDone(i) ==
  /\ net[i].handler = "fetchNotes" /\ Answered(i)
  /\ IF net[i].status = "ok"
     THEN notes' = net[i].payload /\ toast' = toast
     ELSE notes' = notes
          /\ toast' = Toast(ErrMessage(i, "Failed to fetch notes"), "error")
  /\ loading' = FALSE
  /\ net' = Done(i)
  /\ UNCHANGED <<folders, uiVars, ops, srvVars, renderVars, pinVars>>

\* a failed fetch empties the list
FetchFoldersDoneClearing(i) ==
  /\ net[i].handler = "fetchFolders" /\ Answered(i)
  /\ IF net[i].status = "ok"
     THEN folders' = net[i].payload /\ toast' = toast
     ELSE folders' = <<>>
          /\ toast' = Toast(ErrMessage(i, "Failed to fetch folders"), "error")
  /\ net' = Done(i)
  /\ UNCHANGED <<notes, loading, uiVars, ops, srvVars, renderVars, pinVars>>

\* fetchFolders, after the await
FetchFoldersDone(i) ==
  /\ net[i].handler = "fetchFolders" /\ Answered(i)
  /\ IF net[i].status = "ok"
     THEN folders' = net[i].payload /\ toast' = toast
     ELSE folders' = folders
          /\ toast' = Toast(ErrMessage(i, "Failed to fetch folders"), "error")
  /\ net' = Done(i)
  /\ UNCHANGED <<notes, loading, uiVars, ops, srvVars, renderVars, pinVars>>

\* ------------------------------------------------------ what is on the screen
\* <UnfiledNotesSection/> is mounted
UnfiledMounted == notesWithoutFolder # <<>>

\* the notes shown as <DraggableNote/> cards
DraggableNotes ==
  (IF UnfiledMounted /\ isUnfiledExpanded THEN SeqToSet(notesWithoutFolder) ELSE {})
  \cup UNION {SeqToSet(folderNotes(f)) : f \in {g \in MountedSections : Includes(expandedFolders, g)}}

UnfiledDropId == <<"u", "n", "f", "i", "l", "e", "d">>
FolderDropPrefix == <<"f", "o", "l", "d", "e", "r", "-">>
FolderDropId(id) == FolderDropPrefix \o NumToString(id)

\* the droppables that have a DOM node: a section header (or its notes list),
\* and the notes list of the unfiled section, which exists only while expanded
Droppables ==
  (IF UnfiledMounted /\ isUnfiledExpanded THEN {UnfiledDropId} ELSE {})
  \cup {FolderDropId(f) : f \in MountedSections}

\* the controls on the page, each the start of one user operation: the note
\* form and the '+' button are always rendered, a note card carries its edit,
\* pin and delete buttons and is draggable, a section header carries its
\* toggle and the subfolder, edit and delete buttons of its folder
Controls ==
  {[op |-> o, id |-> 0] : o \in {"create", "createFolder"}}
  \cup {[op |-> o, id |-> n.id] : o \in {"edit", "pin", "delete", "move"},
                                 n \in DraggableNotes}
  \cup {[op |-> o, id |-> f] : o \in {"toggle", "subfolder", "editFolder", "deleteFolder"},
                              f \in MountedSections}
  \cup (IF UnfiledMounted THEN {[op |-> "toggle", id |-> 0]} ELSE {})

\* -------------------------------------------------------- expansion state
\* appends the id whether or not the list holds it
toggleFolderAppendOnly(folderId) ==
  /\ folderId \in MountedSections
  /\ expandedFolders' = Append(expandedFolders, folderId)
  /\ UNCHANGED <<dataVars, loading, toast, search, activeTag, isUnfiledExpanded,
                 dialogVars, dragVars, net, ops, srvVars, renderVars, pinVars>>

toggleFolder(folderId) ==
  /\ folderId \in MountedSections
  /\ expandedFolders' =
       IF Includes(expandedFolders, folderId)
       THEN SelectSeq(expandedFolders, LAMBDA id : id # folderId)
       ELSE Append(expandedFolders, folderId)
  /\ UNCHANGED <<dataVars, loading, toast, search, activeTag, isUnfiledExpanded,
                 dialogVars, dragVars, net, ops, srvVars, renderVars, pinVars>>

toggleUnfiled ==
  /\ UnfiledMounted
  /\ isUnfiledExpanded' = ~isUnfiledExpanded
  /\ UNCHANGED <<dataVars, loading, toast, search, activeTag, expandedFolders,
                 dialogVars, dragVars, net, ops, srvVars, renderVars, pinVars>>

\* ------------------------------------------------------------ drag and drop
NoDrag == <<>>
NoOver == <<>>

handleDragStart(n) ==
  /\ dragActive = NoDrag
  /\ n \in DraggableNotes
  /\ dragActive' = NumToString(n.id)
  /\ LET noteId == ParseInt(NumToString(n.id)) IN
       draggedNote' = IF \E k \in 1..Len(notes) : notes[k].id = noteId
                      THEN Some(Find(notes, LAMBDA m : m.id = noteId))
                      ELSE None
  /\ UNCHANGED <<dataVars, loading, toast, viewVars, dialogVars, net, ops, srvVars,
                 renderVars, pinVars>>

\* the droppable id resolved to a folder_id
TargetFolderId(dropId) ==
  IF dropId = UnfiledDropId THEN Null
  ELSE IF StartsWith(dropId, FolderDropPrefix)
       THEN ParseInt(RemovePrefix(dropId, FolderDropPrefix))
       ELSE Null

\* `Note moved to ${folders.find(f => f.id === targetFolderId)?.name || 'folder'}!`
MovedToName(targetFolderId) ==
  IF \E k \in 1..Len(folders) : folders[k].id = targetFolderId
  THEN Find(folders, LAMBDA f : f.id = targetFolderId).name
  ELSE "folder"

\* sends the target folder and the title, and resets the other fields
MoveBodyPartial(note, targetFolderId) ==
  [title |-> note.title, content |-> <<>>, tags |-> <<>>,
   color |-> "#6366f1", folder_id |-> targetFolderId]

\* the JSON body of the PUT that moves a note
MoveBody(note, targetFolderId) ==
  [title |-> note.title, content |-> note.content, tags |-> note.tags,
   color |-> note.color, folder_id |-> targetFolderId]

\* if (note.folder_id === targetFolderId) return
SameFolder(note, targetFolderId) == note.folder_id = targetFolderId

\* clears the marker only when the drop is on a target
handleDragEndKeepsMarker(over) ==
  /\ dragActive # NoDrag
  /\ over \in {NoOver} \cup Droppables
  /\ draggedNote' = IF over = NoOver THEN draggedNote ELSE None
  /\ dragActive' = NoDrag
  /\ LET noteId == ParseInt(dragActive)
         found == \E k \in 1..Len(notes) : notes[k].id = noteId
         note == Find(notes, LAMBDA m : m.id = noteId)
         targetFolderId == TargetFolderId(over)
     IN IF over = NoOver \/ ~found \/ SameFolder(note, targetFolderId)
        THEN UNCHANGED <<net, ops>>
        ELSE /\ ops < MaxOps
             /\ ops' = ops + 1
             /\ net' = Append(net, Req(PutNote, "handleDragEnd", noteId,
                                       MoveBody(note, targetFolderId),
                                       <<MovedToName(targetFolderId)>>))
  /\ UNCHANGED <<dataVars, loading, toast, viewVars, dialogVars, srvVars, renderVars, pinVars>>

\* handleDragEnd, up to the await
handleDragEnd(over) ==
  /\ dragActive # NoDrag
  /\ over \in {NoOver} \cup Droppables
  /\ draggedNote' = None
  /\ dragActive' = NoDrag
  /\ LET noteId == ParseInt(dragActive)
         found == \E k \in 1..Len(notes) : notes[k].id = noteId
         note == Find(notes, LAMBDA m : m.id = noteId)
         targetFolderId == TargetFolderId(over)
     IN IF over = NoOver \/ ~found \/ SameFolder(note, targetFolderId)
        THEN UNCHANGED <<net, ops>>
        ELSE /\ ops < MaxOps
             /\ ops' = ops + 1
             /\ net' = Append(net, Req(PutNote, "handleDragEnd", noteId,
                                       MoveBody(note, targetFolderId),
                                       <<MovedToName(targetFolderId)>>))
  /\ UNCHANGED <<dataVars, loading, toast, viewVars, dialogVars, srvVars, renderVars, pinVars>>

\* rewrites the folder_id of every note of the list
ApplyMoveAll(prev, noteId, targetFolderId) ==
  MapSeq(prev, LAMBDA n : [n EXCEPT !.folder_id = OrUndefined(targetFolderId)])

\* setNotes(prev => prev.map(n => n.id === noteId ? {...n, folder_id: ...} : n))
ApplyMove(prev, noteId, targetFolderId) ==
  MapSeq(prev, LAMBDA n :
    IF n.id = noteId THEN [n EXCEPT !.folder_id = OrUndefined(targetFolderId)] ELSE n)

\* applies the move whatever the response was
NotesAfterMoveOptimistic(i) == ApplyMove(notes, net[i].id, net[i].body.folder_id)

\* the notes collection once the PUT of a move has been answered
NotesAfterMove(i) ==
  IF net[i].status = "ok"
  THEN ApplyMove(notes, net[i].id, net[i].body.folder_id)
  ELSE notes

\* handleDragEnd, after the await
DragEndDone(i) ==
  /\ net[i].handler = "handleDragEnd" /\ Answered(i)
  /\ notes' = NotesAfterMove(i)
  /\ IF net[i].status = "ok"
     THEN /\ toast' = Toast(IF Truthy(net[i].body.folder_id)
                            THEN <<"Note moved to ", net[i].ctx[1], "!">>
                            ELSE <<"Note moved to unfiled!">>, "success")
     ELSE /\ toast' = Toast(ErrMessage(i, "Failed to move note"), "error")
  /\ net' = Done(i)
  /\ UNCHANGED <<folders, loading, uiVars, ops, srvVars, renderVars, pinVars>>

\* ------------------------------------------------------------ deleting a note
handleDelete(id) ==
  /\ \E n \in DraggableNotes : n.id = id
  /\ confirmDelete' = [open |-> TRUE, noteId |-> id]
  /\ UNCHANGED <<dataVars, loading, toast, viewVars, editingNote, showCreateFolder,
                 creatingSubfolderFor, editingFolder, confirmDeleteFolder, dragVars,
                 net, ops, srvVars, renderVars, pinVars>>

\* onCancel of the note dialog
cancelDeleteNote ==
  /\ confirmDelete.open
  /\ confirmDelete' = [open |-> FALSE, noteId |-> Null]
  /\ UNCHANGED <<dataVars, loading, toast, viewVars, editingNote, showCreateFolder,
                 creatingSubfolderFor, editingFolder, confirmDeleteFolder, dragVars,
                 net, ops, srvVars, renderVars, pinVars>>

\* confirmDeleteNote, up to the await
confirmDeleteNote ==
  /\ confirmDelete.open
  /\ Truthy(confirmDelete.noteId)
  /\ ops < MaxOps
  /\ ops' = ops + 1
  /\ toast' = NoToast
  /\ net' = Append(net, Req(DeleteNote, "confirmDeleteNote", confirmDelete.noteId,
                            NoBody, <<>>))
  /\ UNCHANGED <<dataVars, loading, uiVars, srvVars, renderVars, pinVars>>

\* a deleted note is unpinned
ConfirmDeleteNoteDoneUnpin(i) ==
  /\ net[i].handler = "confirmDeleteNote" /\ Answered(i)
  /\ IF net[i].status = "ok"
     THEN /\ toast' = Toast(<<"Note deleted!">>, "success")
          /\ loading' = TRUE
          /\ net' = Append(Done(i), FetchNotesReq)
          /\ pinnedIds' = SelectSeq(pinnedIds, LAMBDA x : x # net[i].id)
          /\ pinnedStore' = JSONStringify(SelectSeq(pinnedIds, LAMBDA x : x # net[i].id))
     ELSE /\ toast' = Toast(ErrMessage(i, "Failed to delete note"), "error")
          /\ loading' = loading
          /\ net' = Done(i)
          /\ UNCHANGED pinVars
  /\ confirmDelete' = [open |-> FALSE, noteId |-> Null]
  /\ UNCHANGED <<dataVars, viewVars, editingNote, showCreateFolder,
                 creatingSubfolderFor, editingFolder, confirmDeleteFolder, dragVars,
                 ops, srvVars, renderVars>>

\* confirmDeleteNote, after the await
ConfirmDeleteNoteDone(i) ==
  /\ net[i].handler = "confirmDeleteNote" /\ Answered(i)
  /\ IF net[i].status = "ok"
     THEN /\ toast' = Toast(<<"Note deleted!">>, "success")
          /\ loading' = TRUE
          /\ net' = Append(Done(i), FetchNotesReq)
     ELSE /\ toast' = Toast(ErrMessage(i, "Failed to delete note"), "error")
          /\ loading' = loading
          /\ net' = Done(i)
  /\ confirmDelete' = [open |-> FALSE, noteId |-> Null]
  /\ UNCHANGED <<dataVars, viewVars, editingNote, showCreateFolder,
                 creatingSubfolderFor, editingFolder, confirmDeleteFolder, dragVars,
                 ops, srvVars, renderVars, pinVars>>

\* ------------------------------------------------------------ initial state
FolderNameOf(id) == IF id % 2 = 1 THEN "Work" ELSE "Personal"

NoteDataOf(id) ==
  IF id % 2 = 1
  THEN [title |-> <<"a">>, content |-> <<"b">>, tags |-> <<"x">>, color |-> "#6366f1"]
  ELSE [title |-> <<"B">>, content |-> <<>>, tags |-> <<>>, color |-> "#ec4899"]

\* the folders table: ids 1..MaxFolders in insertion order, a parent created earlier
InitialFolderTables ==
  { [i \in 1..MaxFolders |-> MkFolder(i, FolderNameOf(i), "folder", ps[i])] :
      ps \in {q \in [1..MaxFolders -> {Null} \cup (1..MaxFolders)] :
                \A i \in 1..MaxFolders : q[i] = Null \/ q[i] < i} }

\* the notes table over a folders table: ids 1..MaxNotes
InitialNoteTables(folderTable) ==
  { [i \in 1..MaxNotes |-> MkNote(i, NoteDataOf(i), fs[i])] :
      fs \in [1..MaxNotes -> {Null} \cup (1..Len(folderTable))] }

\* localStorage.getItem gives null for a key never written: falsy, as '' is
NoItem == <<>>

\* useState<number[]>(() => { const saved = localStorage.getItem('pinned');
\*                          return saved ? JSON.parse(saved) : [] })
PinnedInitial(saved) == IF saved # NoItem THEN JSONParse(saved) ELSE <<>>

\* the first render and the effect that writes pinnedIds back to localStorage
MountPins(saved) ==
  /\ pinnedIds = PinnedInitial(saved)
  /\ pinnedStore = JSONStringify(PinnedInitial(saved))

\* the useState initial values of the dialogs, the drag marker and the toast
DialogInit ==
  /\ toast = NoToast
  /\ editingNote = None
  /\ confirmDelete = [open |-> FALSE, noteId |-> Null]
  /\ showCreateFolder = FALSE /\ creatingSubfolderFor = Null
  /\ draggedNote = None /\ dragActive = NoDrag
  /\ editingFolder = None
  /\ confirmDeleteFolder = [open |-> FALSE, folderId |-> Null]
  /\ ops = 0

\* the client right after the first render and its mount effect
\* (useEffect(() => { fetchNotes(); fetchFolders(); }, []))
ClientInit ==
  /\ DialogInit
  /\ notes = <<>> /\ folders = <<>>
  /\ search = <<>> /\ activeTag = NoTag
  /\ expandedFolders = <<>> /\ isUnfiledExpanded = FALSE
  /\ MountPins(NoItem)

RenderIdle == renderPc = "idle" /\ renderStack = <<>> /\ renderVisited = <<>>

Init ==
  /\ ClientInit
  /\ loading = TRUE
  /\ net = <<FetchNotesReq, FetchFoldersReq>>
  /\ srvFolders \in InitialFolderTables
  /\ srvNotes \in InitialNoteTables(srvFolders)
  /\ srvNextNoteId = Len(srvNotes) + 1
  /\ srvNextFolderId = Len(srvFolders) + 1
  /\ RenderIdle

Requests == 1..Len(net)
Pending(i) == net[i].status = "pending"

Next ==
  \/ \E i \in Requests : Pending(i) /\ ServeGetNotes(i) /\ UNCHANGED <<clientVars, renderVars>>
  \/ \E i \in Requests : Pending(i) /\ ServeGetFolders(i) /\ UNCHANGED <<clientVars, renderVars>>
  \/ \E i \in Requests : Pending(i) /\ ServePutNote(i) /\ UNCHANGED <<clientVars, renderVars>>
  \/ \E i \in Requests : Pending(i) /\ ServeDeleteNote(i) /\ UNCHANGED <<clientVars, renderVars>>
  \/ \E i \in Requests : Pending(i) /\ ServerReject(i) /\ UNCHANGED <<clientVars, renderVars>>
  \/ \E i \in Requests : Pending(i) /\ TransportError(i) /\ UNCHANGED <<clientVars, renderVars>>
  \/ \E i \in Requests : FetchNotesDone(i)
  \/ \E i \in Requests : FetchFoldersDone(i)
  \/ \E i \in Requests : DragEndDone(i)
  \/ \E i \in Requests : ConfirmDeleteNoteDone(i)
  \/ \E f \in FolderIds : toggleFolder(f)
  \/ toggleUnfiled
  \/ \E n \in SeqToSet(notes) : handleDragStart(n)
  \/ \E over \in {NoOver} \cup Droppables : handleDragEnd(over)
  \/ \E id \in NoteIds : handleDelete(id)
  \/ cancelDeleteNote
  \/ confirmDeleteNote

Spec == Init /\ [][Next]_vars

\* ------------------------------------------------- rendering the folder tree
RenderCap == MaxTreeLen + 2

\* App starts a render pass: {hierarchicalFolders.map(folder => ...)}
StartRender ==
  /\ renderPc = "idle"
  /\ renderPc' = "rendering"
  /\ renderStack' = TopLevelSections
  /\ renderVisited' = <<>>
  /\ UNCHANGED <<clientVars, net, srvVars>>

\* one HierarchicalFolderSection call: the header, then the recursion into
\* folder.children when isExpanded
RenderSection ==
  /\ renderPc = "rendering"
  /\ renderStack # <<>>
  /\ Len(renderVisited) < RenderCap
  /\ renderVisited' = Append(renderVisited, Head(renderStack))
  /\ renderStack' = SectionChildren(hierarchicalFolders, expandedFolders,
                                    Head(renderStack)) \o Tail(renderStack)
  /\ UNCHANGED <<renderPc, clientVars, net, srvVars>>

\* the render pass returns
RenderEnd ==
  /\ renderPc = "rendering"
  /\ renderStack = <<>>
  /\ renderPc' = "done"
  /\ UNCHANGED <<renderStack, renderVisited, clientVars, net, srvVars>>

TreeIds == 1..MaxTreeLen

\* flat folder lists with unique ids, in every order, every parent_id null,
\* absent, an id of the list (itself included) or an id not in the list
TreeFolderLists ==
  UNION { { [i \in 1..k |-> MkFolder(ids[i], FolderNameOf(ids[i]), "folder", ps[i])] :
              ids \in {q \in [1..k -> TreeIds] :
                         \A i, j \in 1..k : i # j => q[i] # q[j]},
              ps \in [1..k -> {Null, Undefined} \cup TreeIds] } :
          k \in 0..MaxTreeLen }

\* one list per set of expanded ids
RECURSIVE SetToSeq(_)
SetToSeq(S) ==
  IF S = {} THEN <<>>
  ELSE LET m == CHOOSE x \in S : \A y \in S : x <= y IN <<m>> \o SetToSeq(S \ {m})

\* no request in flight, and a server that is not consulted
Quiet ==
  /\ loading = FALSE
  /\ net = <<>>
  /\ srvFolders = <<>> /\ srvNotes = <<>>
  /\ srvNextNoteId = 1 /\ srvNextFolderId = 1

\* the folder tree on its own: a fetched folder list, some folders expanded
TreeInit ==
  /\ DialogInit
  /\ Quiet
  /\ RenderIdle
  /\ notes = <<>>
  /\ search = <<>> /\ activeTag = NoTag
  /\ isUnfiledExpanded = FALSE
  /\ folders \in TreeFolderLists
  /\ expandedFolders \in {SetToSeq(S) : S \in SUBSET TreeIds}
  /\ MountPins(NoItem)

TreeNext == StartRender \/ RenderSection \/ RenderEnd

\* a render pass is synchronous code: once started it runs to its end
TreeSpec == TreeInit /\ [][TreeNext]_vars /\ WF_vars(TreeNext)

\* ------------------------------------------------------ search and tag filter
\* <SearchBar value={search} onChange={setSearch}/>
setSearch(text) ==
  /\ search' = text
  /\ UNCHANGED <<dataVars, loading, toast, activeTag, expandedFolders,
                 isUnfiledExpanded, dialogVars, dragVars, net, ops, srvVars, renderVars, pinVars>>

\* onClick of a tag chip: setActiveTag(prev => prev === t ? undefined : t)
clickTag(t) ==
  /\ t \in allTags
  /\ activeTag' = IF activeTag = t THEN NoTag ELSE t
  /\ UNCHANGED <<dataVars, loading, toast, search, expandedFolders,
                 isUnfiledExpanded, dialogVars, dragVars, net, ops, srvVars, renderVars, pinVars>>

\* onClick of the Clear chip, shown while a tag is active
clearTag ==
  /\ allTags # {} /\ activeTag # NoTag
  /\ activeTag' = NoTag
  /\ UNCHANGED <<dataVars, loading, toast, search, expandedFolders,
                 isUnfiledExpanded, dialogVars, dragVars, net, ops, srvVars, renderVars, pinVars>>

\* note lists as the client can hold them: fetched rows (folder_id null or a
\* folder) and rows patched by a move to unfiled (folder_id absent)
ViewNoteLists ==
  UNION { { [i \in 1..k |-> MkNote(i, ds[i], fs[i])] :
              ds \in [1..k -> NoteData],
              fs \in [1..k -> {Null, Undefined} \cup FolderIds] } :
          k \in 0..MaxViewNotes }

\* the sidebar on its own: fetched notes and folders, then searching,
\* tag filtering and expanding
ViewInit ==
  /\ DialogInit
  /\ Quiet
  /\ RenderIdle
  /\ notes \in ViewNoteLists
  /\ folders \in InitialFolderTables
  /\ search = <<>> /\ activeTag = NoTag
  /\ expandedFolders = <<>> /\ isUnfiledExpanded = FALSE
  /\ MountPins(NoItem)

ViewNext ==
  \/ \E text \in SearchTexts : setSearch(text)
  \/ \E t \in Tags : clickTag(t)
  \/ clearTag
  \/ \E f \in FolderIds : toggleFolder(f)
  \/ toggleUnfiled

ViewSpec == ViewInit /\ [][ViewNext]_vars

\* ------------------------------------------------------------ the note form
\* onClick of a note card in the tree, or of a card of the recent notes
setEditingNote(n) ==
  /\ n \in DraggableNotes \/ (~IsSome(editingNote) /\ n \in SeqToSet(notes))
  /\ editingNote' = Some(n)
  /\ UNCHANGED <<dataVars, loading, toast, viewVars, confirmDelete, showCreateFolder,
                 creatingSubfolderFor, editingFolder, confirmDeleteFolder, dragVars,
                 net, ops, srvVars, renderVars, pinVars>>

\* onClick of the cancel-edit button
cancelEdit ==
  /\ IsSome(editingNote)
  /\ editingNote' = None
  /\ UNCHANGED <<dataVars, loading, toast, viewVars, confirmDelete, showCreateFolder,
                 creatingSubfolderFor, editingFolder, confirmDeleteFolder, dragVars,
                 net, ops, srvVars, renderVars, pinVars>>

\* what the user has typed into the note form when pressing the submit button
NoteFormInputs ==
  { [title |-> <<" ">>, content |-> <<"b">>, tags |-> <<>>, color |-> "#6366f1"],
    [title |-> <<" ", "a">>, content |-> <<"c">>, tags |-> <<"y">>, color |-> "#ec4899"] }

\* the values of the folder select: the one the form was mounted with, "No
\* Folder", and one option per folder
FolderChoices ==
  {IF IsSome(editingNote) THEN TheObj(editingNote).folder_id ELSE Undefined}
  \cup {Undefined} \cup {folders[k].id : k \in 1..Len(folders)}

\* submits the title as typed, blank or not
NoteFormSubmissionUnchecked(in, folderId) ==
  Some([id |-> IF IsSome(editingNote) THEN TheObj(editingNote).id ELSE Undefined,
        title |-> Trim(in.title), content |-> in.content, tags |-> in.tags,
        color |-> in.color, folder_id |-> folderId])

\* NoteForm.handleSubmit: the object handed to onSubmit, or None when the
\* title is blank (if (!title.trim()) return)
NoteFormSubmission(in, folderId) ==
  IF Trim(in.title) = <<>> THEN None
  ELSE Some([id |-> IF IsSome(editingNote) THEN TheObj(editingNote).id ELSE Undefined,
             title |-> Trim(in.title), content |-> in.content, tags |-> in.tags,
             color |-> in.color, folder_id |-> folderId])

\* JSON.stringify({title, content, tags, color, folder_id})
NoteBody(note) ==
  [title |-> note.title, content |-> note.content, tags |-> note.tags,
   color |-> note.color, folder_id |-> note.folder_id]

\* handleAddOrEdit, up to the await
handleAddOrEdit(note) ==
  /\ ops < MaxOps
  /\ ops' = ops + 1
  /\ toast' = NoToast
  /\ net' = Append(net,
       IF IsSome(editingNote)
       THEN Req(PutNote, "handleAddOrEdit", note.id, NoteBody(note), <<"edit">>)
       ELSE Req(PostNote, "handleAddOrEdit", 0, NoteBody(note), <<"add">>))
  /\ UNCHANGED <<dataVars, loading, uiVars, srvVars, renderVars, pinVars>>

\* the submit button of the note form
submitNoteForm(in, folderId) ==
  /\ folderId \in FolderChoices
  /\ IF IsSome(NoteFormSubmission(in, folderId))
     THEN handleAddOrEdit(TheObj(NoteFormSubmission(in, folderId)))
     ELSE UNCHANGED vars

\* refetches the list after a failure as after a success
AddOrEditDoneRefetch(i) ==
  /\ net[i].handler = "handleAddOrEdit" /\ Answered(i)
  /\ IF net[i].status = "ok"
     THEN /\ toast' = Toast(IF net[i].ctx = <<"edit">> THEN <<"Note updated!">>
                            ELSE <<"Note added!">>, "success")
          /\ editingNote' = IF net[i].ctx = <<"edit">> THEN None ELSE editingNote
     ELSE /\ toast' = Toast(ErrMessage(i, IF net[i].ctx = <<"edit">>
                                          THEN "Failed to update note"
                                          ELSE "Failed to add note"), "error")
          /\ UNCHANGED editingNote
  /\ loading' = TRUE
  /\ net' = Append(Done(i), FetchNotesReq)
  /\ UNCHANGED <<dataVars, viewVars, confirmDelete, showCreateFolder,
                 creatingSubfolderFor, editingFolder, confirmDeleteFolder, dragVars,
                 ops, srvVars, renderVars, pinVars>>

\* handleAddOrEdit, after the await
AddOrEditDone(i) ==
  /\ net[i].handler = "handleAddOrEdit" /\ Answered(i)
  /\ IF net[i].status = "ok"
     THEN /\ toast' = Toast(IF net[i].ctx = <<"edit">> THEN <<"Note updated!">>
                            ELSE <<"Note added!">>, "success")
          /\ editingNote' = IF net[i].ctx = <<"edit">> THEN None ELSE editingNote
          /\ loading' = TRUE
          /\ net' = Append(Done(i), FetchNotesReq)
     ELSE /\ toast' = Toast(ErrMessage(i, IF net[i].ctx = <<"edit">>
                                          THEN "Failed to update note"
                                          ELSE "Failed to add note"), "error")
          /\ UNCHANGED <<editingNote, loading>>
          /\ net' = Done(i)
  /\ UNCHANGED <<dataVars, viewVars, confirmDelete, showCreateFolder,
                 creatingSubfolderFor, editingFolder, confirmDeleteFolder, dragVars,
                 ops, srvVars, renderVars, pinVars>>

\* onClose of the Toast
closeToast ==
  /\ toast # NoToast
  /\ toast' = NoToast
  /\ UNCHANGED <<dataVars, loading, uiVars, net, ops, srvVars, renderVars, pinVars>>

\* ---------------------------------------------------------- folder forms
\* folder names as the characters typed into an input, and back
NameChars(name) ==
  CASE name = "Work" -> <<"W", "o", "r", "k">>
    [] name = "Personal" -> <<"P", "e", "r", "s", "o", "n", "a", "l">>
    [] name = "New" -> <<"N", "e", "w">>
    [] OTHER -> <<"?">>

AsText(chars) ==
  CASE chars = NameChars("Work") -> "Work"
    [] chars = NameChars("Personal") -> "Personal"
    [] chars = NameChars("New") -> "New"
    [] chars = <<>> -> ""
    [] OTHER -> "?"

\* what the user has typed into a folder name input
FolderNameInputs == { <<" ", " ">>, <<" ", "N", "e", "w">> }

\* the icon picked in the create-folder form
FolderIcons == {"*"}

\* texts a validation has to refuse
BlankTexts == { <<>>, <<" ">>, <<" ", " ">> }

\* what the name input of the folder edit form can hold: typed text, or the
\* name of a folder left as it is
EditNameInputs ==
  FolderNameInputs \cup {NameChars(folders[k].name) : k \in 1..Len(folders)}

\* onClick of the '+' button: setShowCreateFolder(!showCreateFolder)
toggleCreateFolder ==
  /\ showCreateFolder' = ~showCreateFolder
  /\ UNCHANGED <<dataVars, loading, toast, viewVars, editingNote, confirmDelete,
                 creatingSubfolderFor, editingFolder, confirmDeleteFolder, dragVars,
                 net, ops, srvVars, renderVars, pinVars>>

handleCreateSubfolder(parentId) ==
  /\ parentId \in MountedSections
  /\ creatingSubfolderFor' = parentId
  /\ showCreateFolder' = TRUE
  /\ UNCHANGED <<dataVars, loading, toast, viewVars, editingNote, confirmDelete,
                 editingFolder, confirmDeleteFolder, dragVars, net, ops, srvVars,
                 renderVars, pinVars>>

\* onClick of the Cancel button of the create-folder form
cancelCreateFolder ==
  /\ showCreateFolder
  /\ showCreateFolder' = FALSE
  /\ creatingSubfolderFor' = Null
  /\ UNCHANGED <<dataVars, loading, toast, viewVars, editingNote, confirmDelete,
                 editingFolder, confirmDeleteFolder, dragVars, net, ops, srvVars,
                 renderVars, pinVars>>

\* JSON.stringify({name, color, icon, parent_id})
FolderBody(name, color, icon, parent_id) ==
  [name |-> name, color |-> color, icon |-> icon, parent_id |-> parent_id]

\* handleCreateFolder: the arguments of createFolder, or None when the name
\* is blank (if (newFolderName.trim()) ...)
CreateFolderSubmission(name, icon) ==
  IF Trim(name) # <<>>
  THEN Some(FolderBody(AsText(Trim(name)), "#6366f1", icon,
                       OrUndefined(creatingSubfolderFor)))
  ELSE None

\* handleCreateFolder and createFolder, up to the await
handleCreateFolder(name, icon) ==
  /\ showCreateFolder
  /\ IF IsSome(CreateFolderSubmission(name, icon))
     THEN /\ ops < MaxOps
          /\ ops' = ops + 1
          /\ net' = Append(net, Req(PostFolder, "handleCreateFolder", 0,
                                    TheObj(CreateFolderSubmission(name, icon)), <<>>))
          /\ UNCHANGED <<dataVars, loading, toast, uiVars, srvVars, renderVars, pinVars>>
     ELSE UNCHANGED vars

\* createFolder after the await, then the rest of handleCreateFolder
CreateFolderDone(i) ==
  /\ net[i].handler = "handleCreateFolder" /\ Answered(i)
  /\ IF net[i].status = "ok"
     THEN /\ toast' = toast
          /\ net' = Append(Done(i), FetchFoldersReq)
     ELSE /\ toast' = Toast(ErrMessage(i, "Failed to create folder"), "error")
          /\ net' = Done(i)
  /\ showCreateFolder' = FALSE
  /\ creatingSubfolderFor' = Null
  /\ UNCHANGED <<dataVars, loading, viewVars, editingNote, confirmDelete,
                 editingFolder, confirmDeleteFolder, dragVars, ops, srvVars,
                 renderVars, pinVars>>

\* onClick of the edit button of a folder header: onEditFolder(folder)
setEditingFolder(folderId) ==
  /\ folderId \in MountedSections
  /\ editingFolder' = Some(Find(folders, LAMBDA f : f.id = folderId))
  /\ UNCHANGED <<dataVars, loading, toast, viewVars, editingNote, confirmDelete,
                 showCreateFolder, creatingSubfolderFor, confirmDeleteFolder, dragVars,
                 net, ops, srvVars, renderVars, pinVars>>

\* <FolderEditForm/> is on the screen: App renders it in place of the section
\* of a top-level folder
FolderEditFormShown ==
  /\ IsSome(editingFolder)
  /\ Includes(hierarchicalFolders.roots, TheObj(editingFolder).id)

\* the folder prop of the form
EditedFolder == Find(folders, LAMBDA f : f.id = TheObj(editingFolder).id)

\* onCancel of the form
cancelEditFolder ==
  /\ FolderEditFormShown
  /\ editingFolder' = None
  /\ UNCHANGED <<dataVars, loading, toast, viewVars, editingNote, confirmDelete,
                 showCreateFolder, creatingSubfolderFor, confirmDeleteFolder, dragVars,
                 net, ops, srvVars, renderVars, pinVars>>

\* FolderEditForm.handleSubmit: the arguments of onSave, or None when the
\* name is blank; updateFolder gets no parent_id
FolderEditSubmission(name) ==
  IF Trim(name) # <<>>
  THEN Some(FolderBody(AsText(Trim(name)), EditedFolder.color, EditedFolder.icon,
                       Undefined))
  ELSE None

\* FolderEditForm.handleSubmit and updateFolder, up to the await
submitFolderEdit(name) ==
  /\ FolderEditFormShown
  /\ name \in FolderNameInputs \cup {NameChars(EditedFolder.name)}
  /\ IF IsSome(FolderEditSubmission(name))
     THEN /\ ops < MaxOps
          /\ ops' = ops + 1
          /\ net' = Append(net, Req(PutFolder, "updateFolder", EditedFolder.id,
                                    TheObj(FolderEditSubmission(name)), <<>>))
          /\ UNCHANGED <<dataVars, loading, toast, uiVars, srvVars, renderVars, pinVars>>
     ELSE UNCHANGED vars

\* updateFolder, after the await
UpdateFolderDone(i) ==
  /\ net[i].handler = "updateFolder" /\ Answered(i)
  /\ IF net[i].status = "ok"
     THEN /\ toast' = toast
          /\ editingFolder' = None
          /\ net' = Append(Done(i), FetchFoldersReq)
     ELSE /\ toast' = Toast(ErrMessage(i, "Failed to update folder"), "error")
          /\ editingFolder' = editingFolder
          /\ net' = Done(i)
  /\ UNCHANGED <<dataVars, loading, viewVars, editingNote, confirmDelete,
                 showCreateFolder, creatingSubfolderFor, confirmDeleteFolder, dragVars,
                 ops, srvVars, renderVars, pinVars>>

\* ------------------------------------------------ server: creating, folders
\* parent_id INTEGER REFERENCES folders(id)
ParentRefOk(pid) == Stored(pid) = Null \/ Stored(pid) \in SrvFolderIds

ServePostNote(i) ==
  /\ net[i].kind = PostNote
  /\ IF FolderRefOk(net[i].body.folder_id)
     THEN /\ srvNotes' = Append(srvNotes, MkNote(srvNextNoteId, net[i].body,
                                                 Stored(net[i].body.folder_id)))
          /\ srvNextNoteId' = srvNextNoteId + 1
          /\ Answer(i, "ok", <<>>)
     ELSE /\ UNCHANGED <<srvNotes, srvNextNoteId>>
          /\ Answer(i, "non2xx", <<>>)
  /\ UNCHANGED <<srvFolders, srvNextFolderId>>

ServePostFolder(i) ==
  /\ net[i].kind = PostFolder
  /\ IF ParentRefOk(net[i].body.parent_id)
     THEN /\ srvFolders' = Append(srvFolders,
                 MkFolder(srvNextFolderId, net[i].body.name, net[i].body.icon,
                          Stored(net[i].body.parent_id)))
          /\ srvNextFolderId' = srvNextFolderId + 1
          /\ Answer(i, "ok", <<>>)
     ELSE /\ UNCHANGED <<srvFolders, srvNextFolderId>>
          /\ Answer(i, "non2xx", <<>>)
  /\ UNCHANGED <<srvNotes, srvNextNoteId>>

\* a body without parent_id either clears the column or leaves it as it is
ServePutFolder(i) ==
  /\ net[i].kind = PutFolder
  /\ IF net[i].id \in SrvFolderIds /\ ParentRefOk(net[i].body.parent_id)
     THEN /\ \E keep \in BOOLEAN :
               srvFolders' = MapSeq(srvFolders, LAMBDA f :
                 IF f.id = net[i].id
                 THEN MkFolder(f.id, net[i].body.name, net[i].body.icon,
                               IF net[i].body.parent_id = Undefined /\ keep
                               THEN f.parent_id
                               ELSE Stored(net[i].body.parent_id))
                 ELSE f)
          /\ Answer(i, "ok", <<>>)
     ELSE /\ srvFolders' = srvFolders
          /\ Answer(i, "non2xx", <<>>)
  /\ UNCHANGED <<srvNotes, srvNextNoteId, srvNextFolderId>>

\* ON DELETE SET NULL on notes.folder_id and on folders.parent_id
ServeDeleteFolder(i) ==
  /\ net[i].kind = DeleteFolder
  /\ IF net[i].id \in SrvFolderIds
     THEN /\ srvFolders' =
               MapSeq(SelectSeq(srvFolders, LAMBDA f : f.id # net[i].id),
                      LAMBDA f : IF f.parent_id = net[i].id
                                 THEN [f EXCEPT !.parent_id = Null] ELSE f)
          /\ srvNotes' = MapSeq(srvNotes, LAMBDA n :
                 IF n.folder_id = net[i].id THEN [n EXCEPT !.folder_id = Null] ELSE n)
          /\ Answer(i, "ok", <<>>)
     ELSE /\ UNCHANGED <<srvFolders, srvNotes>>
          /\ Answer(i, "non2xx", <<>>)
  /\ UNCHANGED <<srvNextNoteId, srvNextFolderId>>

\* ------------------------------------------------------- deleting a folder
\* issues the DELETE at once, without the dialog
handleDeleteFolderAtOnce(folderId) ==
  /\ folderId \in MountedSections
  /\ ops < MaxOps
  /\ ops' = ops + 1
  /\ net' = Append(net, Req(DeleteFolder, "confirmFolderDelete", folderId, NoBody, <<>>))
  /\ UNCHANGED <<dataVars, loading, toast, uiVars, srvVars, renderVars, pinVars>>

handleDeleteFolder(folderId) ==
  /\ folderId \in MountedSections
  /\ confirmDeleteFolder' = [open |-> TRUE, folderId |-> folderId]
  /\ UNCHANGED <<dataVars, loading, toast, viewVars, editingNote, confirmDelete,
                 showCreateFolder, creatingSubfolderFor, editingFolder, dragVars,
                 net, ops, srvVars, renderVars, pinVars>>

\* onCancel of the folder dialog
cancelDeleteFolder ==
  /\ confirmDeleteFolder.open
  /\ confirmDeleteFolder' = [open |-> FALSE, folderId |-> Null]
  /\ UNCHANGED <<dataVars, loading, toast, viewVars, editingNote, confirmDelete,
                 showCreateFolder, creatingSubfolderFor, editingFolder, dragVars,
                 net, ops, srvVars, renderVars, pinVars>>

\* confirmFolderDelete and deleteFolder, up to the await
confirmFolderDelete ==
  /\ confirmDeleteFolder.open
  /\ Truthy(confirmDeleteFolder.folderId)
  /\ ops < MaxOps
  /\ ops' = ops + 1
  /\ net' = Append(net, Req(DeleteFolder, "confirmFolderDelete",
                            confirmDeleteFolder.folderId, NoBody, <<>>))
  /\ UNCHANGED <<dataVars, loading, toast, uiVars, srvVars, renderVars, pinVars>>

\* deleteFolder after the await, then the rest of confirmFolderDelete
ConfirmFolderDeleteDone(i) ==
  /\ net[i].handler = "confirmFolderDelete" /\ Answered(i)
  /\ IF net[i].status = "ok"
     THEN /\ toast' = toast
          /\ loading' = TRUE
          /\ net' = Done(i) \o <<FetchFoldersReq, FetchNotesReq>>
     ELSE /\ toast' = Toast(ErrMessage(i, "Failed to delete folder"), "error")
          /\ loading' = loading
          /\ net' = Done(i)
  /\ confirmDeleteFolder' = [open |-> FALSE, folderId |-> Null]
  /\ UNCHANGED <<dataVars, viewVars, editingNote, confirmDelete, showCreateFolder,
                 creatingSubfolderFor, editingFolder, dragVars, ops, srvVars,
                 renderVars, pinVars>>

\* ------------------------------------------------------ the whole application
\* the page after its first load, with every section expanded
AppInit ==
  /\ DialogInit
  /\ MountPins(NoItem)
  /\ RenderIdle
  /\ srvFolders \in InitialFolderTables
  /\ srvNotes = [i \in 1..MaxNotes |->
                   MkNote(i, NoteDataOf(i), IF i % 2 = 1 THEN 1 ELSE Null)]
  /\ srvNextNoteId = Len(srvNotes) + 1
  /\ srvNextFolderId = Len(srvFolders) + 1
  /\ notes = srvNotes /\ folders = srvFolders
  /\ loading = FALSE
  /\ net = <<>>
  /\ search = <<>> /\ activeTag = NoTag
  /\ expandedFolders = [i \in 1..Len(srvFolders) |-> srvFolders[i].id]
  /\ isUnfiledExpanded = TRUE

\* the server answers a pending request
ServerStep ==
  \/ \E i \in Requests : Pending(i) /\ ServeGetNotes(i) /\ UNCHANGED <<clientVars, renderVars>>
  \/ \E i \in Requests : Pending(i) /\ ServeGetFolders(i) /\ UNCHANGED <<clientVars, renderVars>>
  \/ \E i \in Requests : Pending(i) /\ ServePostNote(i) /\ UNCHANGED <<clientVars, renderVars>>
  \/ \E i \in Requests : Pending(i) /\ ServePutNote(i) /\ UNCHANGED <<clientVars, renderVars>>
  \/ \E i \in Requests : Pending(i) /\ ServeDeleteNote(i) /\ UNCHANGED <<clientVars, renderVars>>
  \/ \E i \in Requests : Pending(i) /\ ServePostFolder(i) /\ UNCHANGED <<clientVars, renderVars>>
  \/ \E i \in Requests : Pending(i) /\ ServePutFolder(i) /\ UNCHANGED <<clientVars, renderVars>>
  \/ \E i \in Requests : Pending(i) /\ ServeDeleteFolder(i) /\ UNCHANGED <<clientVars, renderVars>>
  \/ \E i \in Requests : Pending(i) /\ ServerReject(i) /\ UNCHANGED <<clientVars, renderVars>>
  \/ \E i \in Requests : Pending(i) /\ TransportError(i) /\ UNCHANGED <<clientVars, renderVars>>

\* the code after an await runs
ClientContinuation ==
  \/ \E i \in Requests : FetchNotesDone(i)
  \/ \E i \in Requests : FetchFoldersDone(i)
  \/ \E i \in Requests : DragEndDone(i)
  \/ \E i \in Requests : ConfirmDeleteNoteDone(i)
  \/ \E i \in Requests : AddOrEditDone(i)
  \/ \E i \in Requests : CreateFolderDone(i)
  \/ \E i \in Requests : UpdateFolderDone(i)
  \/ \E i \in Requests : ConfirmFolderDeleteDone(i)

\* a step that issues a request is one of the MaxAppOps mutations
Budget == ops < MaxAppOps \/ net' = net

\* requests overlap freely; the user starts MaxAppOps mutations
AppNext ==
  \/ ServerStep
  \/ ClientContinuation
  \/ \E n \in SeqToSet(notes) : handleDragStart(n)
  \/ \E over \in {NoOver} \cup Droppables : handleDragEnd(over) /\ Budget
  \/ \E id \in IdsOf(notes) : handleDelete(id)
  \/ cancelDeleteNote
  \/ confirmDeleteNote /\ Budget
  \/ \E n \in SeqToSet(notes) : setEditingNote(n)
  \/ cancelEdit
  \/ \E in \in NoteFormInputs : \E folderId \in FolderChoices : submitNoteForm(in, folderId) /\ Budget
  \/ closeToast
  \/ toggleCreateFolder
  \/ \E f \in IdsOf(folders) : handleCreateSubfolder(f)
  \/ cancelCreateFolder
  \/ \E name \in FolderNameInputs : \E icon \in FolderIcons : handleCreateFolder(name, icon) /\ Budget
  \/ \E f \in IdsOf(folders) : setEditingFolder(f)
  \/ cancelEditFolder
  \/ \E name \in EditNameInputs : submitFolderEdit(name) /\ Budget
  \/ \E f \in IdsOf(folders) : handleDeleteFolder(f)
  \/ cancelDeleteFolder
  \/ confirmFolderDelete /\ Budget

AppSpec == AppInit /\ [][AppNext]_vars

\* the dialogs, forms and drags that are open
OpenInteractions ==
  {k \in 1..6 :
     <<confirmDelete.open, confirmDeleteFolder.open, showCreateFolder,
       IsSome(editingFolder), IsSome(editingNote), dragActive # NoDrag>>[k]}

\* the user touches the page only when no request is in flight
Waits == net = <<>>

\* the step leaves at most one dialog, form or drag open
OneAtATime == Cardinality(OpenInteractions') <= 1

\* the user does one thing at a time and waits for the answers
SeqNext ==
  \/ ServerStep
  \/ ClientContinuation
  \/ \E n \in SeqToSet(notes) : Waits /\ handleDragStart(n) /\ OneAtATime
  \/ \E over \in {NoOver} \cup Droppables : Waits /\ handleDragEnd(over) /\ OneAtATime
  \/ \E id \in IdsOf(notes) : Waits /\ handleDelete(id) /\ OneAtATime
  \/ Waits /\ cancelDeleteNote /\ OneAtATime
  \/ Waits /\ confirmDeleteNote /\ OneAtATime
  \/ \E n \in SeqToSet(notes) : Waits /\ setEditingNote(n) /\ OneAtATime
  \/ Waits /\ cancelEdit /\ OneAtATime
  \/ \E in \in NoteFormInputs : \E folderId \in FolderChoices : Waits /\ submitNoteForm(in, folderId) /\ OneAtATime
  \/ Waits /\ closeToast /\ OneAtATime
  \/ Waits /\ toggleCreateFolder /\ OneAtATime
  \/ \E f \in IdsOf(folders) : Waits /\ handleCreateSubfolder(f) /\ OneAtATime
  \/ Waits /\ cancelCreateFolder /\ OneAtATime
  \/ \E name \in FolderNameInputs : \E icon \in FolderIcons : Waits /\ handleCreateFolder(name, icon) /\ OneAtATime
  \/ \E f \in IdsOf(folders) : Waits /\ setEditingFolder(f) /\ OneAtATime
  \/ Waits /\ cancelEditFolder /\ OneAtATime
  \/ \E name \in EditNameInputs : Waits /\ submitFolderEdit(name) /\ OneAtATime
  \/ \E f \in IdsOf(folders) : Waits /\ handleDeleteFolder(f) /\ OneAtATime
  \/ Waits /\ cancelDeleteFolder /\ OneAtATime
  \/ Waits /\ confirmFolderDelete /\ OneAtATime

SeqSpec == AppInit /\ [][SeqNext]_vars

\* ------------------------------------------------------- pins and page reload
\* prev => prev.includes(id) ? prev.filter(x => x !== id) : [...prev, id]
Toggled(prev, id) ==
  IF Includes(prev, id) THEN SelectSeq(prev, LAMBDA x : x # id) ELSE Append(prev, id)

\* togglePin, with the effect that rewrites localStorage when pinnedIds changes
togglePin(id) ==
  /\ \E n \in DraggableNotes : n.id = id
  /\ pinnedIds' = Toggled(pinnedIds, id)
  /\ pinnedStore' = JSONStringify(Toggled(pinnedIds, id))
  /\ UNCHANGED <<dataVars, loading, toast, viewVars, dialogVars, dragVars, net, ops,
                 srvVars, renderVars>>

\* the page is loaded again: every useState starts from its initial value,
\* pinnedIds from localStorage, and the mount effect fetches both lists; the
\* responses to the requests of the page that is gone are dropped
reload ==
  /\ notes' = <<>> /\ folders' = <<>>
  /\ loading' = TRUE
  /\ toast' = NoToast
  /\ search' = <<>> /\ activeTag' = NoTag
  /\ expandedFolders' = <<>> /\ isUnfiledExpanded' = FALSE
  /\ editingNote' = None
  /\ confirmDelete' = [open |-> FALSE, noteId |-> Null]
  /\ showCreateFolder' = FALSE /\ creatingSubfolderFor' = Null
  /\ draggedNote' = None /\ dragActive' = NoDrag
  /\ editingFolder' = None
  /\ confirmDeleteFolder' = [open |-> FALSE, folderId |-> Null]
  /\ pinnedIds' = PinnedInitial(pinnedStore)
  /\ pinnedStore' = JSONStringify(PinnedInitial(pinnedStore))
  /\ net' = <<FetchNotesReq, FetchFoldersReq>>
  /\ UNCHANGED <<ops, srvVars, renderVars>>

PinFolderIds == 1..MaxPinFolders

\* a folders table of n rows, ids 1..n in insertion order, a parent created earlier
FolderTablesOf(n) ==
  { [i \in 1..n |-> MkFolder(i, FolderNameOf(i), "folder", ps[i])] :
      ps \in {q \in [1..n -> {Null} \cup (1..n)] : \A i \in 1..n : q[i] = Null \/ q[i] < i} }

\* what localStorage holds under 'pinned' when the page is opened
SavedPins == {NoItem, JSONStringify(<<>>), JSONStringify(<<2>>), JSONStringify(<<2, 1>>)}

\* the sidebar with pins: a first page load, then expanding, pinning, reloading
PinInit ==
  /\ DialogInit
  /\ notes = <<>> /\ folders = <<>>
  /\ search = <<>> /\ activeTag = NoTag
  /\ expandedFolders = <<>> /\ isUnfiledExpanded = FALSE
  /\ \E saved \in SavedPins : MountPins(saved)
  /\ loading = TRUE
  /\ net = <<FetchNotesReq, FetchFoldersReq>>
  /\ srvFolders \in FolderTablesOf(MaxPinFolders)
  /\ srvNotes \in InitialNoteTables(srvFolders)
  /\ srvNextNoteId = Len(srvNotes) + 1
  /\ srvNextFolderId = Len(srvFolders) + 1
  /\ RenderIdle

PinNext ==
  \/ \E i \in Requests : Pending(i) /\ ServeGetNotes(i) /\ UNCHANGED <<clientVars, renderVars>>
  \/ \E i \in Requests : Pending(i) /\ ServeGetFolders(i) /\ UNCHANGED <<clientVars, renderVars>>
  \/ \E i \in Requests : FetchNotesDone(i)
  \/ \E i \in Requests : FetchFoldersDone(i)
  \/ \E f \in PinFolderIds : toggleFolder(f)
  \/ toggleUnfiled
  \/ \E id \in NoteIds : togglePin(id)
  \/ reload

PinSpec == PinInit /\ [][PinNext]_vars

\* ------------------------------------------------------------ racing moves
\* the loaded page over MaxMoveFolders folders, every section expanded
MoveInit ==
  /\ DialogInit
  /\ MountPins(NoItem)
  /\ RenderIdle
  /\ srvFolders \in FolderTablesOf(MaxMoveFolders)
  /\ srvNotes \in InitialNoteTables(srvFolders)
  /\ srvNextNoteId = Len(srvNotes) + 1
  /\ srvNextFolderId = Len(srvFolders) + 1
  /\ notes = srvNotes /\ folders = srvFolders
  /\ loading = FALSE
  /\ net = <<>>
  /\ search = <<>> /\ activeTag = NoTag
  /\ expandedFolders = [i \in 1..Len(srvFolders) |-> srvFolders[i].id]
  /\ isUnfiledExpanded = TRUE

\* the user drags notes from folder to folder without waiting for the answers
MoveNext ==
  \/ \E i \in Requests : Pending(i) /\ ServePutNote(i) /\ UNCHANGED <<clientVars, renderVars>>
  \/ \E i \in Requests : Pending(i) /\ ServerReject(i) /\ UNCHANGED <<clientVars, renderVars>>
  \/ \E i \in Requests : DragEndDone(i)
  \/ \E n \in SeqToSet(notes) : handleDragStart(n)
  \/ \E over \in {NoOver} \cup Droppables : handleDragEnd(over)

MoveSpec == MoveInit /\ [][MoveNext]_vars

\* --------------------------------------------- pinning, moving, editing, deleting
\* the note operations of a loaded page, MaxAppOps of them sending a request
NoteOpsNext ==
  \/ \E i \in Requests : Pending(i) /\ ServeGetNotes(i) /\ UNCHANGED <<clientVars, renderVars>>
  \/ \E i \in Requests : Pending(i) /\ ServePutNote(i) /\ UNCHANGED <<clientVars, renderVars>>
  \/ \E i \in Requests : Pending(i) /\ ServeDeleteNote(i) /\ UNCHANGED <<clientVars, renderVars>>
  \/ \E i \in Requests : Pending(i) /\ ServerReject(i) /\ UNCHANGED <<clientVars, renderVars>>
  \/ \E i \in Requests : FetchNotesDone(i)
  \/ \E i \in Requests : DragEndDone(i)
  \/ \E i \in Requests : ConfirmDeleteNoteDone(i)
  \/ \E i \in Requests : AddOrEditDone(i)
  \/ \E id \in IdsOf(notes) : togglePin(id)
  \/ \E n \in SeqToSet(notes) : handleDragStart(n)
  \/ \E over \in {NoOver} \cup Droppables : handleDragEnd(over) /\ Budget
  \/ \E id \in IdsOf(notes) : handleDelete(id)
  \/ confirmDeleteNote /\ Budget
  \/ \E n \in SeqToSet(notes) : setEditingNote(n)
  \/ \E in \in NoteFormInputs : \E folderId \in FolderChoices :
        IsSome(editingNote) /\ submitNoteForm(in, folderId) /\ Budget
  \/ \E f \in IdsOf(folders) : handleDeleteFolder(f)
  \/ confirmFolderDelete /\ Budget
  \/ \E i \in Requests : Pending(i) /\ ServeDeleteFolder(i) /\ UNCHANGED <<clientVars, renderVars>>
  \/ \E i \in Requests : Pending(i) /\ ServeGetFolders(i) /\ UNCHANGED <<clientVars, renderVars>>
  \/ \E i \in Requests : ConfirmFolderDeleteDone(i)
  \/ \E i \in Requests : FetchFoldersDone(i)

NoteOpsSpec == AppInit /\ [][NoteOpsNext]_vars

\* ------------------------------------------------- editing a note that is moved
\* the editor is opened on a note, notes are dragged and the form is submitted
EditNext ==
  \/ \E i \in Requests : Pending(i) /\ ServeGetNotes(i) /\ UNCHANGED <<clientVars, renderVars>>
  \/ \E i \in Requests : Pending(i) /\ ServePutNote(i) /\ UNCHANGED <<clientVars, renderVars>>
  \/ \E i \in Requests : Pending(i) /\ ServerReject(i) /\ UNCHANGED <<clientVars, renderVars>>
  \/ \E i \in Requests : FetchNotesDone(i)
  \/ \E i \in Requests : DragEndDone(i)
  \/ \E i \in Requests : AddOrEditDone(i)
  \/ \E n \in SeqToSet(notes) : handleDragStart(n)
  \/ \E over \in {NoOver} \cup Droppables : handleDragEnd(over)
  \/ \E n \in SeqToSet(notes) : setEditingNote(n)
  \/ cancelEdit
  \/ \E in \in NoteFormInputs : \E folderId \in FolderChoices :
        IsSome(editingNote) /\ submitNoteForm(in, folderId)

EditSpec == AppInit /\ [][EditNext]_vars

\* ===================================================================== claims
\* the container a folder_id value stands for: Null is the unfiled container
Container(fid) == IF fid = Null \/ fid = Undefined THEN Null ELSE fid

\* the container a droppable stands for
DropContainer(over) ==
  IF over = UnfiledDropId THEN Null
  ELSE CHOOSE f \in FolderIds : FolderDropId(f) = over

Count(seq, x) == Cardinality({i \in 1..Len(seq) : seq[i] = x})

\* the step in which the continuation of answered request i runs and issues nothing
ContinuationStep(i) ==
  Answered(i) /\ Len(net') = Len(net) - 1 /\ net' = Done(i)

\* ---- C1 (code_bug): a drop on the container the note is already in issues no
\* request and leaves the notes collection unchanged.  Stated as the claim
\* states it; violated when the note's folder_id is absent (undefined) and
\* the target is the unfiled container (null).
C1_NoOpMove ==
  [][\A over \in Droppables : \A k \in 1..Len(notes) :
       ( /\ handleDragEnd(over)
         /\ dragActive = NumToString(notes[k].id)
         /\ Container(notes[k].folder_id) = DropContainer(over) )
       => (net' = net /\ notes' = notes)]_vars

\* ---- C2: when the PUT of a move fails (non-2xx or transport error), the
\* continuation leaves the whole notes collection as it was and sets an error
\* toast.
C2_FailedMoveKeepsNotes ==
  [][\A i \in Requests :
       ( /\ net[i].handler = "handleDragEnd"
         /\ net[i].status \in {"non2xx", "neterr"}
         /\ ContinuationStep(i) )
       => (notes' = notes /\ toast'.type = "error" /\ toast'.message # <<>>)]_vars

\* a failed move has been handled and the collection still holds notes
C2_Witness ==
  /\ toast = Toast(<<"Failed to move note">>, "error")
  /\ notes # <<>>

\* ---- C3: a drop of a note on a container other than its own issues exactly
\* one request, PUT /api/notes/{id} for that note, whose body has the target as
\* folder_id (null for unfiled) and the note's title, content, tags and color.
C3_MoveBody ==
  [][\A over \in Droppables : \A k \in 1..Len(notes) :
       ( /\ handleDragEnd(over)
         /\ dragActive = NumToString(notes[k].id)
         /\ Container(notes[k].folder_id) # DropContainer(over) )
       => ( /\ Len(net') = Len(net) + 1
            /\ SubSeq(net', 1, Len(net)) = net
            /\ net'[Len(net')].kind = PutNote
            /\ net'[Len(net')].id = notes[k].id
            /\ net'[Len(net')].status = "pending"
            /\ net'[Len(net')].body =
                 [title |-> notes[k].title, content |-> notes[k].content,
                  tags |-> notes[k].tags, color |-> notes[k].color,
                  folder_id |-> DropContainer(over)] )]_vars

\* a move to a folder and a move to unfiled have been issued for notes that
\* differ in every field
C3_Witness ==
  /\ \E i \in Requests :
       /\ net[i].handler = "handleDragEnd"
       /\ net[i].body.folder_id = 1 /\ net[i].body.tags = <<"x">>
  /\ \E i \in Requests :
       /\ net[i].handler = "handleDragEnd"
       /\ net[i].body.folder_id = Null /\ net[i].body.tags = <<>>

\* the step in which the success continuation of the move request i runs
MoveOkStep(i) ==
  net[i].handler = "handleDragEnd" /\ net[i].status = "ok" /\ ContinuationStep(i)

\* note n of the collection is moved to the container of t and nothing else changes
MovedOnly(n, t) ==
  /\ Len(notes') = Len(notes)
  /\ \A k \in 1..Len(notes) :
       IF notes[k].id = n
       THEN /\ Container(notes'[k].folder_id) = Container(t)
            /\ notes'[k] = [notes[k] EXCEPT !.folder_id = notes'[k].folder_id]
       ELSE notes'[k] = notes[k]

\* ---- C4 as stated: when the PUT of a move of n to t succeeds, the collection
\* afterwards holds n in container t, nothing else differs, and no GET is needed.
C4_Original ==
  [][\A i \in Requests : MoveOkStep(i) =>
       ( /\ \E k \in 1..Len(notes') :
              /\ notes'[k].id = net[i].id
              /\ Container(notes'[k].folder_id) = Container(net[i].body.folder_id)
         /\ MovedOnly(net[i].id, net[i].body.folder_id) )]_vars

\* ---- C4 (amended): when the PUT of a move of n to t succeeds, every note with
\* id n that the collection holds at that moment is afterwards in container t
\* with its other fields unchanged, every other note is unchanged, the length
\* of the collection is unchanged (a note deleted meanwhile is not re-added),
\* and the step issues no request.
C4_MoveAppliedLocally ==
  [][\A i \in Requests : MoveOkStep(i) =>
       MovedOnly(net[i].id, net[i].body.folder_id)]_vars

\* a move to folder 1 has succeeded and the moved note is shown in folder 1
\* while no GET /api/notes is in flight
C4_Witness ==
  /\ toast = Toast(<<"Note moved to ", "Work", "!">>, "success")
  /\ \E k \in 1..Len(notes) : notes[k].folder_id = 1
  /\ \A i \in Requests : net[i].kind # GetNotes

\* ---- C5 (code_bug): every successful note mutation is followed by a GET
\* /api/notes, every successful folder create or update by a GET /api/folders,
\* every successful folder delete by both.  Stated on the step that handles
\* the 2xx answer; violated by the drag-move, which issues no GET.
MutationKinds == {PostNote, PutNote, DeleteNote, PostFolder, PutFolder, DeleteFolder}

RequiredRefetch(kind) ==
  IF kind \in {PostNote, PutNote, DeleteNote} THEN {GetNotes}
  ELSE IF kind \in {PostFolder, PutFolder} THEN {GetFolders}
  ELSE {GetFolders, GetNotes}

\* the step in which the continuation of request i runs
Continuation(i) ==
  \/ FetchNotesDone(i) \/ FetchFoldersDone(i)
  \/ DragEndDone(i) \/ ConfirmDeleteNoteDone(i)

C5_RefetchAfterMutation ==
  [][\A i \in Requests :
       (net[i].kind \in MutationKinds /\ net[i].status = "ok" /\ Continuation(i))
       => RequiredRefetch(net[i].kind) \subseteq
            {net'[j].kind : j \in Len(net)..Len(net')}]_vars

\* ---- C6: the roots are exactly the folders whose parent_id is null, absent or
\* the id of no folder of the list, each once; every other folder occurs once,
\* in the children list of the folder whose id is its parent_id, and nowhere else.
C6_RootSet ==
  LET tree == hierarchicalFolders
      ids == IdsOf(folders)
  IN /\ SeqToSet(tree.roots) \subseteq ids
     /\ DOMAIN tree.children = ids
     /\ \A i \in 1..Len(folders) :
          LET f == folders[i]
              rootByClaim == f.parent_id \in {Null, Undefined} \/ f.parent_id \notin ids
          IN /\ Count(tree.roots, f.id) = (IF rootByClaim THEN 1 ELSE 0)
             /\ \A p \in ids :
                  Count(tree.children[p], f.id) =
                    (IF ~rootByClaim /\ p = f.parent_id THEN 1 ELSE 0)

\* a rendered tree in which a folder with a dangling parent_id is a root and
\* has a child of its own
C6_Witness ==
  /\ renderPc = "done"
  /\ \E i, j \in 1..Len(folders) :
       /\ Truthy(folders[i].parent_id)
       /\ folders[i].parent_id \notin IdsOf(folders)
       /\ folders[j].parent_id = folders[i].id
       /\ Includes(renderVisited, folders[i].id)
       /\ Includes(renderVisited, folders[j].id)

\* ---- C7: every permutation of the flat list yields the same set of root ids
\* and the same children of every folder, as sets of ids.
PermuteSeq(flat, sigma) == [i \in 1..Len(flat) |-> flat[sigma[i]]]

RootSet(tree) == SeqToSet(tree.roots)
ChildSets(tree) == [id \in DOMAIN tree.children |-> SeqToSet(tree.children[id])]

C7_OrderIndependent ==
  \A sigma \in Permutations(1..Len(folders)) :
    LET other == organizeHierarchically(PermuteSeq(folders, sigma))
    IN /\ RootSet(other) = RootSet(hierarchicalFolders)
       /\ ChildSets(other) = ChildSets(hierarchicalFolders)

\* a rendered tree whose list names a child before its parent
C7_Witness ==
  /\ renderPc = "done"
  /\ \E i, j \in 1..Len(folders) :
       /\ i < j
       /\ folders[i].parent_id = folders[j].id
       /\ Includes(renderVisited, folders[i].id)

\* ---- C8: the render pass that starts from the roots and descends through the
\* children of expanded folders ends, for every list (self-parents and cycles
\* included) and every set of expanded folders.
C8_RenderTerminates == <>(renderPc = "done")

\* a finished render pass over a list that holds a two-folder cycle, both of
\* its folders expanded, beside a root that was rendered
C8_Witness ==
  /\ renderPc = "done"
  /\ renderVisited # <<>>
  /\ \E i, j \in 1..Len(folders) :
       /\ i # j
       /\ folders[i].parent_id = folders[j].id
       /\ folders[j].parent_id = folders[i].id
       /\ Includes(expandedFolders, folders[i].id)
       /\ Includes(expandedFolders, folders[j].id)

\* ---- C9 (code_bug): the count shown for every rendered folder is the number
\* of notes of the search- and tag-filtered list in that folder.  Stated as
\* the claim states it; violated because the folder sections are handed the
\* unfiltered notes.
C9_CountsFollowFilter ==
  \A f \in MountedSections :
    FolderCount(f) =
      Len(SelectSeq(searchAndTagFilteredNotes, LAMBDA n : n.folder_id = f))

\* ---- C10: with no search text and no active tag, the unfiled section shows
\* the number of notes whose folder_id is null or absent (and is mounted
\* exactly when that number is positive), every rendered folder shows the
\* number of notes whose folder_id is its id, and no note is counted in both.
C10_UnfiledAndFolderCounts ==
  (search = <<>> /\ activeTag = NoTag) =>
    /\ UnfiledCount =
         Cardinality({i \in 1..Len(notes) : notes[i].folder_id \in {Null, Undefined}})
    /\ UnfiledMounted <=> UnfiledCount > 0
    /\ \A f \in MountedSections :
         /\ FolderCount(f) =
              Cardinality({i \in 1..Len(notes) : notes[i].folder_id = f})
         /\ \A i \in 1..Len(notes) :
              ~(Includes(notesWithoutFolder, notes[i]) /\ Includes(folderNotes(f), notes[i]))

\* the sidebar shows Unfiled Notes (2), one fetched and one moved there, and
\* folder 1 shows (1)
C10_Witness ==
  /\ search = <<>> /\ activeTag = NoTag
  /\ UnfiledCount = 2 /\ FolderCount(1) = 1 /\ 1 \in MountedSections
  /\ \E i, j \in 1..Len(notes) :
       notes[i].folder_id = Null /\ notes[j].folder_id = Undefined

\* ---- C14: the text stored under 'pinned' is always the JSON array of the
\* current pinnedIds and parses back to it, and a page reload starts with
\* pinnedIds equal to what it was before the reload, so that a note id is
\* pinned after the reload exactly when it was pinned before.
C14_PinRoundTrip ==
  /\ [](pinnedStore = JSONStringify(pinnedIds) /\ JSONParse(pinnedStore) = pinnedIds)
  /\ [][reload => ( /\ pinnedIds' = JSONParse(pinnedStore)
                    /\ \A id \in NoteIds :
                         Includes(pinnedIds', id) <=> Includes(pinnedIds, id) )]_vars

\* two notes are pinned, the later-numbered first, after a reload that read
\* them back: the lists are fetched again and a pinned note is on screen
C14_Witness ==
  /\ pinnedIds = <<2, 1>>
  /\ pinnedStore = <<"[", "2", ",", "1", "]">>
  /\ notes # <<>> /\ expandedFolders # <<>>

\* ---- C20: toggleFolder(f) adds f to the expanded list when it is absent and
\* removes it when present, changes the membership of no other id, leaves the
\* unfiled flag, notes, folders and pinnedIds unchanged and issues no request;
\* toggling the same id twice restores the expanded set; the expanded list
\* never holds an id twice.
C20_ToggleFlipsOne ==
  /\ [](\A i, j \in 1..Len(expandedFolders) :
          i # j => expandedFolders[i] # expandedFolders[j])
  /\ [][\A f \in PinFolderIds : toggleFolder(f) =>
         ( /\ expandedFolders' = Toggled(expandedFolders, f)
           /\ Includes(expandedFolders', f) <=> ~Includes(expandedFolders, f)
           /\ \A g \in PinFolderIds \ {f} :
                Includes(expandedFolders', g) <=> Includes(expandedFolders, g)
           /\ SeqToSet(Toggled(expandedFolders', f)) = SeqToSet(expandedFolders)
           /\ UNCHANGED <<isUnfiledExpanded, notes, folders, pinnedIds, net>> )]_vars

\* both folders are expanded, the second before the first, the unfiled section
\* is expanded too and a note is pinned
C20_Witness ==
  /\ expandedFolders = <<2, 1>>
  /\ isUnfiledExpanded
  /\ pinnedIds # <<>>

\* the requests of the given kinds that wait for their answer
PendingOf(reqs, kinds) ==
  {j \in 1..Len(reqs) : reqs[j].kind \in kinds /\ reqs[j].status = "pending"}

\* the step issues a request of one of the given kinds
Issues(kinds) ==
  Cardinality(PendingOf(net', kinds)) > Cardinality(PendingOf(net, kinds))

\* the request the step has issued
Issued == net'[Len(net')]

\* ---- C11: a DELETE for a note is issued only by the confirm button of the note
\* dialog, open for that note id, and a DELETE for a folder only by the confirm
\* button of the folder dialog, open for that folder id; no step that issues
\* a request or changes notes or folders is the press of a delete button or
\* the cancelling of a dialog.
C11_DeleteNeedsConfirm ==
  [][ /\ Issues({DeleteNote}) =>
           ( /\ confirmDeleteNote
             /\ confirmDelete.open
             /\ Issued.kind = DeleteNote /\ Issued.id = confirmDelete.noteId )
      /\ Issues({DeleteFolder}) =>
           ( /\ confirmFolderDelete
             /\ confirmDeleteFolder.open
             /\ Issued.kind = DeleteFolder /\ Issued.id = confirmDeleteFolder.folderId )
      /\ (net' # net \/ notes' # notes \/ folders' # folders) =>
           ~( \/ \E id \in IdsOf(notes) : handleDelete(id)
              \/ \E f \in IdsOf(folders) : handleDeleteFolder(f)
              \/ cancelDeleteNote
              \/ cancelDeleteFolder ) ]_vars

\* the folder dialog was opened for folder 1 and confirmed: the DELETE for
\* folder 1 is in flight while the note dialog, opened and cancelled, is closed
C11_Witness ==
  /\ \E i \in Requests : net[i].kind = DeleteFolder /\ net[i].id = 1
  /\ confirmDeleteFolder = [open |-> TRUE, folderId |-> 1]
  /\ confirmDelete = [open |-> FALSE, noteId |-> Null]

\* empty, or blanks only
Blank(str) == \A k \in 1..Len(str) : str[k] = " "

\* ---- C12: a note form submitted with an empty or blank title, a create-folder
\* form submitted with an empty or blank name and a folder edit form submitted
\* with an empty or blank name hand nothing to the request layer, and no step
\* that sends a request or changes notes or folders is such a submission.
C12_ValidationBlocks ==
  /\ [](\A in \in NoteFormInputs : \A title \in BlankTexts \cup {in.title} :
          \A folderId \in FolderChoices :
            Blank(title) => ~IsSome(NoteFormSubmission([in EXCEPT !.title = title], folderId)))
  /\ [](\A name \in BlankTexts \cup FolderNameInputs : \A icon \in FolderIcons :
          Blank(name) => ~IsSome(CreateFolderSubmission(name, icon)))
  /\ [](FolderEditFormShown =>
          \A name \in BlankTexts \cup EditNameInputs :
            Blank(name) => ~IsSome(FolderEditSubmission(name)))
  /\ [][ (net' # net \/ notes' # notes \/ folders' # folders) =>
           ( /\ \A in \in NoteFormInputs : \A folderId \in FolderChoices :
                  Blank(in.title) => ~submitNoteForm(in, folderId)
             /\ \A name \in FolderNameInputs : \A icon \in FolderIcons :
                  Blank(name) => ~handleCreateFolder(name, icon)
             /\ \A name \in EditNameInputs :
                  Blank(name) => ~submitFolderEdit(name) ) ]_vars

\* the create-folder form and the edit form of folder 1 are on the screen
\* beside the note form, nothing has been sent
C12_Witness ==
  /\ showCreateFolder
  /\ FolderEditFormShown
  /\ net = <<>> /\ ops = 0

\* the message the interface table gives for a method and path
TableMessage(kind) ==
  CASE kind = PostNote -> "Failed to add note"
    [] kind = PutNote -> "Failed to update note"
    [] kind = DeleteNote -> "Failed to delete note"
    [] kind = PostFolder -> "Failed to create folder"
    [] kind = PutFolder -> "Failed to update folder"
    [] kind = DeleteFolder -> "Failed to delete folder"

\* the step in which the code after the await of request i runs
AnyDone(i) ==
  \/ FetchNotesDone(i) \/ FetchFoldersDone(i)
  \/ DragEndDone(i) \/ ConfirmDeleteNoteDone(i)
  \/ AddOrEditDone(i) \/ CreateFolderDone(i)
  \/ UpdateFolderDone(i) \/ ConfirmFolderDeleteDone(i)

\* ---- C13 as stated: every mutation request answered non-2xx sets an error
\* toast with the message of the interface table for its method and path.
C13_Original ==
  [][\A i \in Requests :
       (net[i].kind \in MutationKinds /\ net[i].status = "non2xx" /\ AnyDone(i))
       => toast' = Toast(<<TableMessage(net[i].kind)>>, "error")]_vars

\* ---- C13 (amended): every mutation request answered non-2xx sets an error
\* toast, never a success toast; its message is the one of the interface table
\* for the method and path, except for the PUT /api/notes/{id} of a drag-move,
\* whose message is 'Failed to move note'.
C13_ErrorMessages ==
  [][\A i \in Requests :
       (net[i].kind \in MutationKinds /\ net[i].status = "non2xx" /\ AnyDone(i))
       => toast' = Toast(<<IF net[i].handler = "handleDragEnd"
                           THEN "Failed to move note"
                           ELSE TableMessage(net[i].kind)>>, "error")]_vars

\* the PUT of an edit was answered non-2xx: the note form is still in edit
\* mode and the toast names the update
C13_Witness ==
  /\ toast = Toast(<<"Failed to update note">>, "error")
  /\ IsSome(editingNote)
  /\ net = <<>>

\* request i was answered with a failure
Failed(i) == net[i].status \in {"non2xx", "neterr"}

\* ---- C15: the step that handles a failed request, a list fetch or a mutation,
\* answered non-2xx or lost in transport, sets an error toast, leaves notes
\* and folders as they are and removes no control from the page: every
\* operation that could be started before the failure can be started after it.
C15_FailuresNonFatal ==
  [][\A i \in Requests :
       (Failed(i) /\ AnyDone(i)) =>
         ( /\ toast'.type = "error"
           /\ notes' = notes /\ folders' = folders
           /\ Controls \subseteq Controls'
           /\ [op |-> "create", id |-> 0] \in Controls'
           /\ [op |-> "createFolder", id |-> 0] \in Controls' )]_vars

\* the refetch after a mutation has failed: its toast is shown over the list
\* the page had, whose notes still carry their controls
C15_Witness ==
  /\ toast.type = "error" /\ toast.message = <<"Failed to fetch notes">>
  /\ notes # <<>>
  /\ \E n \in DraggableNotes : [op |-> "delete", id |-> n.id] \in Controls
  /\ net = <<>>

\* requests i and j are moves of one note to different containers, both
\* answered with success and both waiting for their continuation
RacingMoves(i, j) ==
  /\ net[i].handler = "handleDragEnd" /\ net[j].handler = "handleDragEnd"
  /\ net[i].id = net[j].id
  /\ Container(net[i].body.folder_id) # Container(net[j].body.folder_id)
  /\ net[i].status = "ok" /\ net[j].status = "ok"

\* ---- C16 (code_bug): when two moves of one note to different folders are in
\* flight together and both succeed, the note ends in the target of the move
\* issued last, whatever the order of the responses.  Stated on the step that
\* handles the response of the later-issued move j while the response of the
\* earlier-issued move i still waits: the collection that the continuation of
\* i then produces has to hold the note in the target of j.
C16_LastWriteWins ==
  [][\A i, j \in Requests :
       (i < j /\ RacingMoves(i, j) /\ DragEndDone(j)) =>
         \A n \in SeqToSet(ApplyMove(notes', net[i].id, net[i].body.folder_id)) :
           n.id = net[j].id =>
             Container(n.folder_id) = Container(net[j].body.folder_id)]_vars

\* the error toast of a mutation that was answered non-2xx
MutationErrorToasts ==
  {Toast(<<m>>, "error") :
     m \in {TableMessage(k) : k \in MutationKinds} \cup {"Failed to move note"}}

\* ---- C18 (code_bug): when a note or folder create, update, delete or move
\* succeeds after an earlier operation has failed, the error toast of that
\* failure is no longer displayed once the successful operation has completed.
\* Stated on the step that handles the 2xx answer of a mutation while the
\* error toast of an earlier failed mutation is displayed: after the step the
\* toast is not an error toast.
C18_SuccessSupersedes ==
  [][\A i \in Requests :
       ( /\ toast \in MutationErrorToasts
         /\ net[i].kind \in MutationKinds /\ net[i].status = "ok"
         /\ AnyDone(i) )
       => toast'.type # "error"]_vars

\* the GET /api/notes requests in flight
NoteFetches(reqs) == {j \in 1..Len(reqs) : reqs[j].kind = GetNotes}

\* ---- C17: nothing queues or serializes requests, and a response is applied
\* when it arrives: the step that handles the 2xx answer of a GET /api/notes
\* sets notes to the payload of that answer, whether the fetch was issued
\* before or after the other fetches in flight; so when overlapping fetches
\* have all been handled, notes is the payload of the one handled last.
C17_LastResponseWins ==
  [][\A i \in Requests :
       (net[i].kind = GetNotes /\ net[i].status = "ok" /\ FetchNotesDone(i)) =>
         ( /\ notes' = net[i].payload
           /\ NoteFetches(net') = {} <=> NoteFetches(net) = {i} )]_vars

\* two deletes were confirmed one after the other, their refetches overlapped
\* and the answer of the first refetch, taken before the second delete, was
\* handled last: the page shows a note the server no longer has
C17_Witness ==
  /\ net = <<>>
  /\ srvNotes = <<>>
  /\ Len(notes) = 1
  /\ toast = Toast(<<"Note deleted!">>, "success")

\* ---- C19: a step in which the user submits a form, confirms a delete or
\* drops a note sends one request, a mutation, behind the requests already in
\* flight; a mutation is sent by no other step; and the step that handles the
\* failure of a mutation sends nothing: no retry and no refetch.
C19_NoRetry ==
  [][ /\ ops' # ops =>
           ( /\ ops' = ops + 1
             /\ Len(net') = Len(net) + 1
             /\ SubSeq(net', 1, Len(net)) = net
             /\ Issued.kind \in MutationKinds /\ Issued.status = "pending" )
      /\ Issues(MutationKinds) => ops' = ops + 1
      /\ \A i \in Requests :
           (net[i].kind \in MutationKinds /\ Failed(i) /\ AnyDone(i)) =>
             net' = Done(i) ]_vars

\* the one POST of a submitted note form has failed and nothing is in flight
C19_Witness ==
  /\ toast = Toast(<<"Failed to add note">>, "error")
  /\ ops = 1
  /\ net = <<>>
  /\ notes = srvNotes

\* ---- C21: togglePin sends no request and leaves notes, folders and the
\* server's tables as they are; pinnedIds changes in no other step, whether a
\* move, an edit, a delete or the arrival of a refetch of notes or folders;
\* and what local storage holds is the JSON text of pinnedIds.
C21_PinsIndependent ==
  /\ [](pinnedStore = JSONStringify(pinnedIds))
  /\ [][ /\ pinnedIds' # pinnedIds =>
              ( /\ \E id \in IdsOf(notes) : togglePin(id)
                /\ UNCHANGED <<net, notes, folders, srvVars>> )
         /\ (net' # net \/ notes' # notes \/ folders' # folders) =>
              UNCHANGED pinVars ]_vars

\* note 1 was pinned and then deleted: the refetch has removed it from the
\* notes collection and its id is still pinned
C21_Witness ==
  /\ pinnedIds = <<1>>
  /\ 1 \notin IdsOf(notes)
  /\ notes # <<>>
  /\ net = <<>>

SelectorUntouched(folderId) ==
  IsSome(editingNote) /\ folderId = TheObj(editingNote).folder_id

\* ---- C23 (code_bug): when the edit form of a note is submitted with the
\* folder selector untouched, the folder_id of the PUT body is the folder_id
\* the note has in the notes collection at that moment, also when the note was
\* moved by drag-and-drop after the editor was opened on it.
C23_EditKeepsMove ==
  [][\A in \in NoteFormInputs : \A folderId \in FolderChoices :
       ( /\ SelectorUntouched(folderId)
         /\ Issues({PutNote})
         /\ submitNoteForm(in, folderId) )
       => \A n \in SeqToSet(notes) :
            n.id = Issued.id =>
              Container(Issued.body.folder_id) = Container(n.folder_id)]_vars

\* ---- C24 (code_bug): whenever no request is in flight after the first load,
\* every note of the notes collection that the server holds is in the container
\* the server holds it in, whatever the interleaving of moves, deletes and
\* refetch responses was.
C24_Converges ==
  net = <<>> =>
    \A k \in 1..Len(notes) : \A j \in 1..Len(srvNotes) :
      notes[k].id = srvNotes[j].id =>
        Container(notes[k].folder_id) = Container(srvNotes[j].folder_id)

\* a DELETE for the note of the open dialog is in flight
NoteDeleteInFlight ==
  \E i \in Requests : net[i].kind = DeleteNote /\ net[i].id = confirmDelete.noteId

\* ---- C25 (code_bug): one opening of the delete dialog leads to at most one
\* DELETE for its id: pressing the confirm button while the DELETE it has sent
\* is still in flight sends no second one.
C25_OneDeletePerConfirm ==
  [][(confirmDelete.open /\ NoteDeleteInFlight /\ confirmDeleteNote) =>
       ~Issues({DeleteNote})]_vars

\* ---- C26 (code_bug): whenever the create-folder form is hidden,
\* creatingSubfolderFor is null, so that the form the section-header '+'
\* button opens creates a root folder, whatever add-subfolder clicks, '+'
\* clicks, cancels and submits came before.
C26_HiddenFormHasNoParent ==
  ~showCreateFolder => creatingSubfolderFor = Null

\* the folders a render that expands every section reaches from the set S
RECURSIVE Descendants(_, _, _)
Descendants(tree, S, fuel) ==
  IF fuel = 0 THEN S
  ELSE Descendants(tree, S \cup UNION {SeqToSet(tree.children[id]) : id \in S}, fuel - 1)

\* ---- C27 (code_bug): for every flat folder list with unique ids, lists with
\* a parent_id that names the folder itself or with a cycle of parent_id links
\* included, every folder is reachable from exactly one root of the forest
\* that organizeHierarchically returns and occurs exactly once in it.
C27_NoFolderLost ==
  LET tree == hierarchicalFolders
      ids == IdsOf(folders)
  IN \A id \in ids :
       /\ Cardinality({r \in RootSet(tree) :
                         id \in Descendants(tree, {r}, Len(folders))}) = 1
       /\ Count(tree.roots, id)
            + Cardinality({p \in ids : Count(tree.children[p], id) = 1}) = 1
       /\ \A p \in ids : Count(tree.children[p], id) <= 1

\* the displayed containers a note belongs to: the unfiled section, and the
\* folders of the folders collection whose id is the note's folder_id
ContainersOf(n) ==
  (IF n \in SeqToSet(notesWithoutFolder) THEN {Null} ELSE {})
  \cup {f \in IdsOf(folders) : n \in SeqToSet(folderNotes(f))}

\* ---- C28 (code_bug): with no search text and no active tag, every note of
\* the notes collection belongs to exactly one displayed container, the
\* unfiled section when its folder_id is null or absent and else the folder of
\* the folders collection with that id, between the refetches that follow a
\* folder deletion as at any other time.
C28_OnePlacePerNote ==
  (search = <<>> /\ activeTag = NoTag) =>
    \A k \in 1..Len(notes) :
      /\ Cardinality(ContainersOf(notes[k])) = 1
      /\ ContainersOf(notes[k]) = {Container(notes[k].folder_id)}

\* ---- C29 (code_bug): pressing the edit button of a displayed folder, a root
\* folder or a nested subfolder, displays the folder edit form for that folder.
C29_EditFormAtAnyDepth ==
  [][\A f \in IdsOf(folders) :
       (editingFolder' # editingFolder /\ setEditingFolder(f)) =>
         (FolderEditFormShown /\ EditedFolder.id = f)']_vars

\* ---- C30 (code_bug): whenever some note of the notes collection has a
\* folder, the 'unfiled' drop target can receive a drop, whether or not a note
\* is unfiled and whether or not the unfiled section is expanded.
C30_UnfiledTargetThere ==
  (\E k \in 1..Len(notes) : Truthy(notes[k].folder_id)) =>
    UnfiledDropId \in Droppables

====
